---- MODULE Spec2Model ----
(***************************************************************************)
(* Upgrade Path Engine (app/compatibility/graph.py): a per-model directed  *)
(* graph of software versions, built from the data source, searched for a  *)
(* shortest upgrade path, expanded with mandatory intermediates and        *)
(* summarised into steps, an overall risk and a total downtime.            *)
(*                                                                         *)
(* Conventions.  A Python value that may be None is a sequence of length   *)
(* at most one: None is <<>>, a value x is <<x>>.  A Python dict is a      *)
(* function whose DOMAIN is the set of keys present.  A networkx DiGraph   *)
(* is its node set plus its edges in order of first insertion: that order  *)
(* is the iteration order of both adjacency dicts (G.succ[u], G.pred[v]).  *)
(***************************************************************************)
EXTENDS Integers, Sequences, FiniteSets, TLC

VARIABLES
    model_graphs,   \* self.model_graphs: model id -> graph (a dict)
    version_map,    \* self.version_map: version id -> version data (a dict)
    db,             \* the data source: the version, upgrade-path and compatibility rows of the model
    tasks,          \* the asynchronous calls in flight: task id -> position, arguments, locals, outcome
    call            \* the last completed synchronous call: operation, arguments, outcome

vars == <<model_graphs, version_map, db, tasks, call>>

-----------------------------------------------------------------------------
(* Bounds of the model.                                                    *)

\* version ids of the path-search specification are 1..PathVersions
PathVersions == 4
\* upgrade-path rows of the path-search specification
PathEdges == 4
\* upgrade-path rows and compatibility rows of the build specification
BuildPathRows == 2
BuildCompatRows == 2

-----------------------------------------------------------------------------
(* Python values.                                                          *)

None == <<>>
Some(x) == <<x>>
IsNone(o) == Len(o) = 0

\* the empty dict
EmptyDict == [k \in {} |-> None]

\* d.get(k, default)
DictGet(d, k, default) == IF k \in DOMAIN d THEN d[k] ELSE default

\* an update that keeps only the new entries
DictUpdateReplacing(d, e) == e

\* d.update(e): the keys of e overwrite, the other keys of d stay
DictUpdate(d, e) ==
    [k \in (DOMAIN d) \cup (DOMAIN e) |-> IF k \in DOMAIN e THEN e[k] ELSE d[k]]

\* the outcome of a call: a returned value, or a raised exception
Return(v) == [raised |-> "none", value |-> v]
Raise(exception) == [raised |-> exception, value |-> None]

-----------------------------------------------------------------------------
(* networkx.DiGraph, as far as the engine uses it.                         *)

\* nx.DiGraph()
NewGraph == [nodes |-> {}, edges |-> <<>>]

\* graph.add_node(n)
add_node(g, n) == [g EXCEPT !.nodes = @ \cup {n}]

\* position of the edge (u, v) in insertion order, 0 when absent
EdgeIndex(g, u, v) ==
    IF \E i \in 1..Len(g.edges) : g.edges[i].u = u /\ g.edges[i].v = v
    THEN CHOOSE i \in 1..Len(g.edges) : g.edges[i].u = u /\ g.edges[i].v = v
    ELSE 0

\* graph.has_edge(u, v)
has_edge(g, u, v) == EdgeIndex(g, u, v) # 0

\* graph.add_edge(u, v, **attr): both endpoints become nodes; a new edge goes
\* last in insertion order, an existing one keeps its place and has its
\* attribute dict updated
add_edge(g, u, v, attr) ==
    LET i == EdgeIndex(g, u, v) IN
    [nodes |-> g.nodes \cup {u, v},
     edges |-> IF i = 0
               THEN Append(g.edges, [u |-> u, v |-> v, attr |-> attr])
               ELSE [g.edges EXCEPT ![i].attr = DictUpdate(@, attr)]]

\* graph.get_edge_data(u, v): the attribute dict, or None
get_edge_data(g, u, v) ==
    LET i == EdgeIndex(g, u, v) IN
    IF i = 0 THEN None ELSE Some(g.edges[i].attr)

\* list(G.succ[v]): out-neighbours of v in insertion order
SuccList(g, v) ==
    LET s == SelectSeq(g.edges, LAMBDA e : e.u = v) IN
    [i \in 1..Len(s) |-> s[i].v]

\* list(G.pred[v]): in-neighbours of v in insertion order
PredList(g, v) ==
    LET s == SelectSeq(g.edges, LAMBDA e : e.v = v) IN
    [i \in 1..Len(s) |-> s[i].u]

-----------------------------------------------------------------------------
(* nx.shortest_path(G, source, target) with no weight: networkx runs its   *)
(* bidirectional breadth-first search (bidirectional_shortest_path), which *)
(* grows a forward level from the source and a reverse level from the      *)
(* target, always the smaller fringe first (the forward one on a tie), and *)
(* stops at the first node seen from both sides.                           *)

\* the (v, w) pairs of "for v in this_level: for w in Gsucc[v]", in order
RECURSIVE ForwardPairs(_, _)
ForwardPairs(g, level) ==
    IF level = <<>> THEN <<>>
    ELSE LET v == Head(level)
             ws == SuccList(g, v)
         IN [i \in 1..Len(ws) |-> <<v, ws[i]>>] \o ForwardPairs(g, Tail(level))

\* the (v, w) pairs of "for v in this_level: for w in Gpred[v]", in order
RECURSIVE ReversePairs(_, _)
ReversePairs(g, level) ==
    IF level = <<>> THEN <<>>
    ELSE LET v == Head(level)
             ws == PredList(g, v)
         IN [i \in 1..Len(ws) |-> <<v, ws[i]>>] \o ReversePairs(g, Tail(level))

\* one level of one side: `seen` is the side's own parent dict (pred or
\* succ), `other` the opposite side's; a new node w gets seen[w] = v and
\* joins the fringe; the scan returns at the first w the other side has seen
RECURSIVE ScanLevel(_, _, _, _, _)
ScanLevel(pairs, i, seen, other, fringe) ==
    IF i > Len(pairs)
    THEN [found |-> FALSE, w |-> None, seen |-> seen, fringe |-> fringe]
    ELSE LET v == pairs[i][1]
             w == pairs[i][2]
             new == w \notin DOMAIN seen
             seen2 == IF new THEN seen @@ (w :> Some(v)) ELSE seen
             fringe2 == IF new THEN Append(fringe, w) ELSE fringe
         IN IF w \in DOMAIN other
            THEN [found |-> TRUE, w |-> Some(w), seen |-> seen2, fringe |-> fringe2]
            ELSE ScanLevel(pairs, i + 1, seen2, other, fringe2)

\* the loop with the reverse fringe grown first on a tie ("<" for "<=")
RECURSIVE BidirectionalLoopReverseFirst(_, _, _, _, _)
BidirectionalLoopReverseFirst(g, pred, succ, forward_fringe, reverse_fringe) ==
    IF forward_fringe = <<>> \/ reverse_fringe = <<>>
    THEN [found |-> FALSE, w |-> None, pred |-> pred, succ |-> succ]
    ELSE IF Len(forward_fringe) < Len(reverse_fringe)
    THEN LET r == ScanLevel(ForwardPairs(g, forward_fringe), 1, pred, succ, <<>>) IN
         IF r.found
         THEN [found |-> TRUE, w |-> r.w, pred |-> r.seen, succ |-> succ]
         ELSE BidirectionalLoopReverseFirst(g, r.seen, succ, r.fringe, reverse_fringe)
    ELSE LET r == ScanLevel(ReversePairs(g, reverse_fringe), 1, succ, pred, <<>>) IN
         IF r.found
         THEN [found |-> TRUE, w |-> r.w, pred |-> pred, succ |-> r.seen]
         ELSE BidirectionalLoopReverseFirst(g, pred, r.seen, forward_fringe, r.fringe)

\* the while loop of _bidirectional_pred_succ; found = FALSE is NetworkXNoPath
RECURSIVE BidirectionalLoop(_, _, _, _, _)
BidirectionalLoop(g, pred, succ, forward_fringe, reverse_fringe) ==
    IF forward_fringe = <<>> \/ reverse_fringe = <<>>
    THEN [found |-> FALSE, w |-> None, pred |-> pred, succ |-> succ]
    ELSE IF Len(forward_fringe) <= Len(reverse_fringe)
    THEN LET r == ScanLevel(ForwardPairs(g, forward_fringe), 1, pred, succ, <<>>) IN
         IF r.found
         THEN [found |-> TRUE, w |-> r.w, pred |-> r.seen, succ |-> succ]
         ELSE BidirectionalLoop(g, r.seen, succ, r.fringe, reverse_fringe)
    ELSE LET r == ScanLevel(ReversePairs(g, reverse_fringe), 1, succ, pred, <<>>) IN
         IF r.found
         THEN [found |-> TRUE, w |-> r.w, pred |-> pred, succ |-> r.seen]
         ELSE BidirectionalLoop(g, pred, r.seen, forward_fringe, r.fringe)

\* _bidirectional_pred_succ(G, source, target)
bidirectional_pred_succ(g, source, target) ==
    IF target = source
    THEN [found |-> TRUE, w |-> Some(source),
          pred |-> (target :> None), succ |-> (source :> None)]
    ELSE BidirectionalLoop(g, (source :> None), (target :> None),
                           <<source>>, <<target>>)

\* "while w is not None: path.append(w); w = parent[w]"
RECURSIVE Chase(_, _)
Chase(parent, w) ==
    IF IsNone(w) THEN <<>> ELSE <<w[1]>> \o Chase(parent, parent[w[1]])

Reverse(s) == [i \in 1..Len(s) |-> s[Len(s) + 1 - i]]

\* a depth-first search along first out-neighbours: the first simple path
\* found from the last node of `path` to target, <<>> when there is none
RECURSIVE DepthFirst(_, _, _, _)
DepthFirst(g, path, target, ws) ==
    IF path[Len(path)] = target THEN path
    ELSE IF ws = <<>> THEN <<>>
    ELSE IF \E i \in 1..Len(path) : path[i] = Head(ws)
    THEN DepthFirst(g, path, target, Tail(ws))
    ELSE LET r == DepthFirst(g, Append(path, Head(ws)), target, SuccList(g, Head(ws)))
         IN IF r # <<>> THEN r ELSE DepthFirst(g, path, target, Tail(ws))

\* shortest_path answering with the first path found, not a shortest one
shortest_path_first_found(g, source, target) ==
    IF source \notin g.nodes \/ target \notin g.nodes
    THEN Raise("NodeNotFound")
    ELSE LET r == DepthFirst(g, <<source>>, target, SuccList(g, source)) IN
         IF r = <<>> THEN Raise("NetworkXNoPath") ELSE Return(r)

\* nx.shortest_path(graph, source, target): the node list of the path;
\* networkx raises NodeNotFound for an endpoint that is no node of the graph
\* and NetworkXNoPath when the two searches never meet
shortest_path(g, source, target) ==
    IF source \notin g.nodes \/ target \notin g.nodes
    THEN Raise("NodeNotFound")
    ELSE LET r == bidirectional_pred_succ(g, source, target) IN
         IF ~r.found
         THEN Raise("NetworkXNoPath")
         ELSE LET head == Reverse(Chase(r.pred, r.w))
              IN Return(head \o Chase(r.succ, r.succ[head[Len(head)]]))

\* a has_path that asks for a path of at least one edge
has_path_of_an_edge(g, source, target) ==
    LET sp == shortest_path(g, source, target) IN
    IF sp.raised = "NetworkXNoPath" THEN Return(FALSE)
    ELSE IF sp.raised # "none" THEN sp
    ELSE Return(Len(sp.value) > 1)

\* nx.has_path(graph, source, target): shortest_path under
\* "except nx.NetworkXNoPath: return False"
has_path(g, source, target) ==
    LET sp == shortest_path(g, source, target) IN
    IF sp.raised = "NetworkXNoPath" THEN Return(FALSE)
    ELSE IF sp.raised # "none" THEN sp
    ELSE Return(TRUE)

-----------------------------------------------------------------------------
(* build_graph_from_db: the pieces between its three data fetches.         *)

\* the version_map entry the build makes of a version row
VersionEntry(version) ==
    [id |-> version.id,
     version_string |-> version.version_string,
     normalized_version |-> version.normalized_version,
     eol_status |-> version.eol_status,
     eol_date |-> version.eol_date]

\* "for version in versions: graph.add_node(version.id)", from a new graph
RECURSIVE AddVersionNodes(_, _)
AddVersionNodes(graph, versions) ==
    IF versions = <<>> THEN graph
    ELSE AddVersionNodes(add_node(graph, Head(versions).id), Tail(versions))

\* "for version in versions: version_map[version.id] = {...}", from {}
RECURSIVE AddVersionEntries(_, _)
AddVersionEntries(vmap, versions) ==
    IF versions = <<>> THEN vmap
    ELSE AddVersionEntries(DictUpdate(vmap, Head(versions).id :> VersionEntry(Head(versions))),
                           Tail(versions))

\* "x or default" on an optional column
OrDefault(x, default) == IF IsNone(x) THEN default ELSE x[1]

\* the keyword arguments of the add_edge of an upgrade-path row
UpgradePathAttrs(path) ==
    [path_id |-> path.id,
     mandatory_intermediates |-> OrDefault(path.mandatory_intermediate_version_ids, <<>>),
     risk_level |-> OrDefault(path.risk_level, "LOW"),
     notes |-> path.notes,
     estimated_downtime_minutes |-> path.estimated_downtime_minutes,
     requires_backup |-> path.requires_backup,
     requires_reboot |-> path.requires_reboot]

\* the keyword arguments of a compatibility edge without the row's notes
CompatibilityAttrsWithoutNotes(compat) ==
    [compatibility_id |-> compat.id,
     risk_level |-> "LOW",
     notes |-> None,
     requires_backup |-> TRUE,
     requires_reboot |-> TRUE]

\* the keyword arguments of the add_edge of a compatibility row
CompatibilityAttrs(compat) ==
    [compatibility_id |-> compat.id,
     risk_level |-> "LOW",
     notes |-> compat.notes,
     requires_backup |-> TRUE,
     requires_reboot |-> TRUE]

\* "for path in upgrade_paths: graph.add_edge(...)"
RECURSIVE AddUpgradePaths(_, _)
AddUpgradePaths(graph, upgrade_paths) ==
    IF upgrade_paths = <<>> THEN graph
    ELSE LET path == Head(upgrade_paths) IN
         AddUpgradePaths(add_edge(graph, path.from_version_id, path.to_version_id,
                                  UpgradePathAttrs(path)),
                         Tail(upgrade_paths))

\* a compatibility row added without the has_edge test
AddCompatibilityUnguarded(graph, compat) ==
    add_edge(graph, compat.from_version_id, compat.to_version_id,
             CompatibilityAttrs(compat))

\* one compatibility row: added only if no edge joins the pair yet
AddCompatibility(graph, compat) ==
    IF ~has_edge(graph, compat.from_version_id, compat.to_version_id)
    THEN add_edge(graph, compat.from_version_id, compat.to_version_id,
                  CompatibilityAttrs(compat))
    ELSE graph

\* "for compat in compatibilities: if not graph.has_edge(...): graph.add_edge(...)"
RECURSIVE AddCompatibilities(_, _)
AddCompatibilities(graph, compatibilities) ==
    IF compatibilities = <<>> THEN graph
    ELSE AddCompatibilities(AddCompatibility(graph, Head(compatibilities)),
                            Tail(compatibilities))

\* the rows the compatibility query returns: those with allowed == True
AllowedRows(rows) == SelectSeq(rows, LAMBDA c : c.allowed)

\* the graph a build makes of the three fetched row lists (versions non-empty)
BuildGraph(versions, upgrade_paths, compatibilities) ==
    AddCompatibilities(
        AddUpgradePaths(AddVersionNodes(NewGraph, versions), upgrade_paths),
        compatibilities)

-----------------------------------------------------------------------------
(* UpgradePathEngine: the synchronous queries.                             *)

\* "for i in range(len(path_nodes) - 1): path_edges.append(...)"
PathEdgesOf(path_nodes) ==
    [i \in 1..(Len(path_nodes) - 1) |-> <<path_nodes[i], path_nodes[i + 1]>>]

\* find_upgrade_path ending with "return path_edges or None"
find_upgrade_path_empty_as_none(graphs, model_id, from_version_id, to_version_id) ==
    IF model_id \notin DOMAIN graphs
    THEN Return(None)
    ELSE LET graph == graphs[model_id] IN
         IF from_version_id \notin graph.nodes \/ to_version_id \notin graph.nodes
         THEN Return(None)
         ELSE LET sp == shortest_path(graph, from_version_id, to_version_id) IN
              IF sp.raised = "NetworkXNoPath" THEN Return(None)
              ELSE IF sp.raised # "none" THEN sp
              ELSE IF Len(sp.value) <= 1 THEN Return(None)
              ELSE Return(Some(PathEdgesOf(sp.value)))

\* find_upgrade_path without its "except nx.NetworkXNoPath" clause
find_upgrade_path_uncaught(graphs, model_id, from_version_id, to_version_id) ==
    IF model_id \notin DOMAIN graphs
    THEN Return(None)
    ELSE LET graph == graphs[model_id] IN
         IF from_version_id \notin graph.nodes \/ to_version_id \notin graph.nodes
         THEN Return(None)
         ELSE LET sp == shortest_path(graph, from_version_id, to_version_id) IN
              IF sp.raised # "none" THEN sp
              ELSE Return(Some(PathEdgesOf(sp.value)))

\* find_upgrade_path that keeps off the edges with mandatory intermediates
\* whenever the others make a path
find_upgrade_path_by_steps(graphs, model_id, from_version_id, to_version_id) ==
    IF model_id \notin DOMAIN graphs
    THEN Return(None)
    ELSE LET graph == graphs[model_id]
             Direct(e) == DictGet(e.attr, "mandatory_intermediates", <<>>) = <<>>
             plain == [nodes |-> graph.nodes, edges |-> SelectSeq(graph.edges, Direct)]
         IN
         IF from_version_id \notin graph.nodes \/ to_version_id \notin graph.nodes
         THEN Return(None)
         ELSE LET sp == IF has_path(plain, from_version_id, to_version_id).value = TRUE
                        THEN shortest_path(plain, from_version_id, to_version_id)
                        ELSE shortest_path(graph, from_version_id, to_version_id)
              IN
              IF sp.raised = "NetworkXNoPath" THEN Return(None)
              ELSE IF sp.raised # "none" THEN sp
              ELSE Return(Some(PathEdgesOf(sp.value)))

\* find_upgrade_path(model_id, from_version_id, to_version_id) on the cache
\* `graphs`: returns None, or the list of (from, to) edges of the shortest
\* path; NetworkXNoPath is the one exception it catches
find_upgrade_path(graphs, model_id, from_version_id, to_version_id) ==
    IF model_id \notin DOMAIN graphs
    THEN Return(None)
    ELSE LET graph == graphs[model_id] IN
         IF from_version_id \notin graph.nodes \/ to_version_id \notin graph.nodes
         THEN Return(None)
         ELSE LET sp == shortest_path(graph, from_version_id, to_version_id) IN
              IF sp.raised = "NetworkXNoPath" THEN Return(None)
              ELSE IF sp.raised # "none" THEN sp
              ELSE Return(Some(PathEdgesOf(sp.value)))

\* the inner loop without "current = intermediate_id": every hop of the
\* chain leaves from the edge's source
InsertIntermediatesFromSource(current, mandatory_intermediates, to_id) ==
    [j \in 1..(Len(mandatory_intermediates) + 1) |->
        <<current, IF j <= Len(mandatory_intermediates)
                   THEN mandatory_intermediates[j] ELSE to_id>>]

\* the chain (a, i1), (i1, i2), ..., (ik, b) of one edge: the inner loop of
\* expand_path_with_intermediates, `current` being the last node reached
RECURSIVE InsertIntermediates(_, _, _)
InsertIntermediates(current, mandatory_intermediates, to_id) ==
    IF mandatory_intermediates = <<>>
    THEN << <<current, to_id>> >>
    ELSE << <<current, Head(mandatory_intermediates)>> >>
         \o InsertIntermediates(Head(mandatory_intermediates),
                                Tail(mandatory_intermediates), to_id)

\* expand_path_with_intermediates without the insertion of intermediates
ExpandEdgeDirect(graph, from_id, to_id) ==
    << <<from_id, to_id>> >>

\* what one input edge contributes to `expanded`
ExpandEdge(graph, from_id, to_id) ==
    LET edge_data == get_edge_data(graph, from_id, to_id) IN
    IF IsNone(edge_data) \/ DOMAIN edge_data[1] = {}
    THEN << <<from_id, to_id>> >>
    ELSE LET mandatory_intermediates ==
                 DictGet(edge_data[1], "mandatory_intermediates", <<>>)
         IN IF mandatory_intermediates = <<>>
            THEN << <<from_id, to_id>> >>
            ELSE InsertIntermediates(from_id, mandatory_intermediates, to_id)

RECURSIVE ExpandEdges(_, _)
ExpandEdges(graph, path_edges) ==
    IF path_edges = <<>> THEN <<>>
    ELSE ExpandEdge(graph, Head(path_edges)[1], Head(path_edges)[2])
         \o ExpandEdges(graph, Tail(path_edges))

\* expand_path_with_intermediates(model_id, path_edges)
expand_path_with_intermediates(graphs, model_id, path_edges) ==
    IF model_id \notin DOMAIN graphs
    THEN path_edges
    ELSE ExpandEdges(graphs[model_id], path_edges)

\* a step dict that takes its edge data from the edge whose mandatory
\* intermediates the hop came from, when there is one
StepOfInherited(graph, vmap, from_id, to_id) ==
    LET from_version == DictGet(vmap, from_id, EmptyDict)
        to_version == DictGet(vmap, to_id, EmptyDict)
        origin == {i \in 1..Len(graph.edges) :
                      /\ "mandatory_intermediates" \in DOMAIN graph.edges[i].attr
                      /\ \E j \in 1..Len(graph.edges[i].attr.mandatory_intermediates) :
                             graph.edges[i].attr.mandatory_intermediates[j]
                                 \in {from_id, to_id}}
        found == get_edge_data(graph, from_id, to_id)
        edge_data == IF origin # {}
                     THEN graph.edges[CHOOSE i \in origin : \A j \in origin : i <= j].attr
                     ELSE IF IsNone(found) THEN EmptyDict ELSE found[1]
        version_string(v) == IF "version_string" \in DOMAIN v
                             THEN Some(v.version_string) ELSE None
    IN [from_version_id |-> from_id,
        to_version_id |-> to_id,
        from_version |-> version_string(from_version),
        to_version |-> version_string(to_version),
        risk_level |-> DictGet(edge_data, "risk_level", "LOW"),
        notes |-> DictGet(edge_data, "notes", None),
        estimated_downtime_minutes |-> DictGet(edge_data, "estimated_downtime_minutes", None),
        requires_backup |-> DictGet(edge_data, "requires_backup", TRUE),
        requires_reboot |-> DictGet(edge_data, "requires_reboot", TRUE),
        mandatory_intermediates |-> DictGet(edge_data, "mandatory_intermediates", <<>>)]

\* the step dict get_path_details makes of one hop
StepOf(graph, vmap, from_id, to_id) ==
    LET from_version == DictGet(vmap, from_id, EmptyDict)
        to_version == DictGet(vmap, to_id, EmptyDict)
        found == get_edge_data(graph, from_id, to_id)
        edge_data == IF IsNone(found) THEN EmptyDict ELSE found[1]
        version_string(v) == IF "version_string" \in DOMAIN v
                             THEN Some(v.version_string) ELSE None
    IN [from_version_id |-> from_id,
        to_version_id |-> to_id,
        from_version |-> version_string(from_version),
        to_version |-> version_string(to_version),
        risk_level |-> DictGet(edge_data, "risk_level", "LOW"),
        notes |-> DictGet(edge_data, "notes", None),
        estimated_downtime_minutes |-> DictGet(edge_data, "estimated_downtime_minutes", None),
        requires_backup |-> DictGet(edge_data, "requires_backup", TRUE),
        requires_reboot |-> DictGet(edge_data, "requires_reboot", TRUE),
        mandatory_intermediates |-> DictGet(edge_data, "mandatory_intermediates", <<>>)]

\* get_path_details(model_id, path_edges)
get_path_details(graphs, vmap, model_id, path_edges) ==
    IF model_id \notin DOMAIN graphs
    THEN <<>>
    ELSE [i \in 1..Len(path_edges) |->
             StepOf(graphs[model_id], vmap, path_edges[i][1], path_edges[i][2])]

\* calculate_overall_risk with the MED test before the HIGH test
calculate_overall_risk_med_first(steps) ==
    LET risk_levels == [i \in 1..Len(steps) |-> steps[i].risk_level] IN
    IF \E i \in 1..Len(risk_levels) : risk_levels[i] = "MED" THEN "MED"
    ELSE IF \E i \in 1..Len(risk_levels) : risk_levels[i] = "HIGH" THEN "HIGH"
    ELSE "LOW"

\* calculate_overall_risk(steps)
calculate_overall_risk(steps) ==
    LET risk_levels == [i \in 1..Len(steps) |-> steps[i].risk_level] IN
    IF \E i \in 1..Len(risk_levels) : risk_levels[i] = "HIGH" THEN "HIGH"
    ELSE IF \E i \in 1..Len(risk_levels) : risk_levels[i] = "MED" THEN "MED"
    ELSE "LOW"

\* the loop of calculate_total_downtime: (total, has_estimate) after the steps
RECURSIVE DowntimeLoop(_, _, _)
DowntimeLoop(steps, total, has_estimate) ==
    IF steps = <<>> THEN [total |-> total, has_estimate |-> has_estimate]
    ELSE LET downtime == DictGet(Head(steps), "estimated_downtime_minutes", None) IN
         IF ~IsNone(downtime)
         THEN DowntimeLoop(Tail(steps), total + downtime[1], TRUE)
         ELSE DowntimeLoop(Tail(steps), total, has_estimate)

\* calculate_total_downtime returning on the truth value of the total
calculate_total_downtime_falsy(steps) ==
    LET r == DowntimeLoop(steps, 0, FALSE) IN
    IF r.total # 0 THEN Some(r.total) ELSE None

\* calculate_total_downtime(steps): None, or the sum
calculate_total_downtime(steps) ==
    LET r == DowntimeLoop(steps, 0, FALSE) IN
    IF r.has_estimate THEN Some(r.total) ELSE None

\* the dict compute_upgrade_path returns for the detailed steps
UpgradePathResult(model_id, from_version_id, to_version_id, steps) ==
    [model_id |-> model_id,
     from_version_id |-> from_version_id,
     to_version_id |-> to_version_id,
     steps |-> steps,
     overall_risk |-> calculate_overall_risk(steps),
     total_estimated_downtime_minutes |-> calculate_total_downtime(steps),
     step_count |-> Len(steps)]

\* compute_upgrade_path that details the base path, not the expanded one
ComputeFromFoundUnexpanded(graphs, vmap, model_id, from_version_id, to_version_id, found) ==
    IF found.raised # "none" THEN found
    ELSE IF IsNone(found.value) \/ found.value[1] = <<>>
    THEN Return(None)
    ELSE Return(Some(UpgradePathResult(
             model_id, from_version_id, to_version_id,
             get_path_details(graphs, vmap, model_id, found.value[1]))))

\* compute_upgrade_path after find_upgrade_path has answered `found`
ComputeFromFound(graphs, vmap, model_id, from_version_id, to_version_id, found) ==
    IF found.raised # "none" THEN found
    ELSE IF IsNone(found.value) \/ found.value[1] = <<>>
    THEN Return(None)
    ELSE Return(Some(UpgradePathResult(
             model_id, from_version_id, to_version_id,
             get_path_details(graphs, vmap, model_id,
                 expand_path_with_intermediates(graphs, model_id, found.value[1])))))

\* compute_upgrade_path from "# Find base path" on, on the cache as it is then
ComputeFromCache(graphs, vmap, model_id, from_version_id, to_version_id) ==
    ComputeFromFound(graphs, vmap, model_id, from_version_id, to_version_id,
                     find_upgrade_path(graphs, model_id, from_version_id, to_version_id))

\* validate_path giving two nodes without a route the reason of a missing
\* target
validate_path_one_reason(graphs, model_id, from_version_id, to_version_id) ==
    IF model_id \notin DOMAIN graphs
    THEN Return(<<FALSE, Some("No graph available for model")>>)
    ELSE LET graph == graphs[model_id] IN
         IF from_version_id \notin graph.nodes
         THEN Return(<<FALSE, Some("Source version not found")>>)
         ELSE IF to_version_id \notin graph.nodes
         THEN Return(<<FALSE, Some("Target version not found")>>)
         ELSE LET connected == has_path(graph, from_version_id, to_version_id) IN
              IF connected.raised # "none" THEN connected
              ELSE IF ~connected.value
              THEN Return(<<FALSE, Some("Target version not found")>>)
              ELSE Return(<<TRUE, None>>)

\* validate_path(model_id, from_version_id, to_version_id): (is_valid, error_message)
validate_path(graphs, model_id, from_version_id, to_version_id) ==
    IF model_id \notin DOMAIN graphs
    THEN Return(<<FALSE, Some("No graph available for model")>>)
    ELSE LET graph == graphs[model_id] IN
         IF from_version_id \notin graph.nodes
         THEN Return(<<FALSE, Some("Source version not found")>>)
         ELSE IF to_version_id \notin graph.nodes
         THEN Return(<<FALSE, Some("Target version not found")>>)
         ELSE LET connected == has_path(graph, from_version_id, to_version_id) IN
              IF connected.raised # "none" THEN connected
              ELSE IF ~connected.value
              THEN Return(<<FALSE, Some("No upgrade path exists")>>)
              ELSE Return(<<TRUE, None>>)


-----------------------------------------------------------------------------
(* The asynchronous operations.  A task runs one call; it can be suspended *)
(* at each "await db.execute(...)" and nowhere else, so the code between   *)
(* two awaits is one step.                                                 *)

IdleTask ==
    [pc |-> "idle", op |-> "none",
     model_id |-> 0, from_version_id |-> 0, to_version_id |-> 0,
     graph |-> NewGraph,          \* the local `graph` of a build
     version_map |-> EmptyDict,   \* the local `version_map` of a build
     fetches |-> 0,               \* the db.execute calls the call has made
     result |-> Return(None)]

Callable(t) == tasks[t].pc \in {"idle", "done"}

Fetching(t) ==
    tasks[t].pc \in {"fetch_versions", "fetch_upgrade_paths", "fetch_compatibilities"}

\* the call ends: its locals are gone, its outcome stays
Finished(task, outcome) ==
    [task EXCEPT !.pc = "done", !.graph = NewGraph, !.version_map = EmptyDict,
                 !.result = outcome]

\* what is left of the call once build_graph_from_db has returned
AfterBuild(task, graphs, vmap) ==
    IF task.op = "compute_upgrade_path"
    THEN ComputeFromCache(graphs, vmap, task.model_id,
                          task.from_version_id, task.to_version_id)
    ELSE Return(None)

\* compute_upgrade_path that builds the graph whether it is cached or not
ComputeUpgradePathAlwaysBuilding(t, model_id, from_version_id, to_version_id) ==
    /\ Callable(t)
    /\ tasks' = [tasks EXCEPT ![t] =
                    [IdleTask EXCEPT !.op = "compute_upgrade_path",
                                     !.model_id = model_id,
                                     !.from_version_id = from_version_id,
                                     !.to_version_id = to_version_id,
                                     !.pc = "fetch_versions",
                                     !.fetches = 1]]
    /\ UNCHANGED <<model_graphs, version_map, db, call>>

\* compute_upgrade_path(db, model_id, from_version_id, to_version_id) is
\* called: on a cached model it runs to its end, otherwise it starts the
\* build and waits for the versions
ComputeUpgradePath(t, model_id, from_version_id, to_version_id) ==
    /\ Callable(t)
    /\ LET task == [IdleTask EXCEPT !.op = "compute_upgrade_path",
                                    !.model_id = model_id,
                                    !.from_version_id = from_version_id,
                                    !.to_version_id = to_version_id]
       IN tasks' = [tasks EXCEPT ![t] =
                       IF model_id \in DOMAIN model_graphs
                       THEN Finished(task, AfterBuild(task, model_graphs, version_map))
                       ELSE [task EXCEPT !.pc = "fetch_versions", !.fetches = 1]]
    /\ UNCHANGED <<model_graphs, version_map, db, call>>

\* build_graph_from_db(db, model_id) is called directly (an explicit rebuild)
BuildGraphFromDb(t, model_id) ==
    /\ Callable(t)
    /\ tasks' = [tasks EXCEPT ![t] =
                    [IdleTask EXCEPT !.op = "build_graph_from_db",
                                     !.model_id = model_id,
                                     !.pc = "fetch_versions",
                                     !.fetches = 1]]
    /\ UNCHANGED <<model_graphs, version_map, db, call>>

\* a versions step that caches the graph as soon as it has its nodes
VersionsFetchedPublishing(t, versions) ==
    /\ tasks[t].pc = "fetch_versions"
    /\ tasks' = [tasks EXCEPT ![t] =
                    IF versions = <<>>
                    THEN Finished(@, AfterBuild(@, model_graphs, version_map))
                    ELSE [@ EXCEPT !.pc = "fetch_upgrade_paths",
                                   !.fetches = 2,
                                   !.graph = AddVersionNodes(NewGraph, versions),
                                   !.version_map = AddVersionEntries(EmptyDict, versions)]]
    /\ model_graphs' = IF versions = <<>> THEN model_graphs
                       ELSE DictUpdate(model_graphs,
                                       tasks[t].model_id :> AddVersionNodes(NewGraph, versions))
    /\ UNCHANGED <<version_map, db, call>>

\* a versions step that adds the fetched versions to the graph the cache
\* holds for the model
VersionsFetchedMerging(t, versions) ==
    /\ tasks[t].pc = "fetch_versions"
    /\ tasks' = [tasks EXCEPT ![t] =
                    IF versions = <<>>
                    THEN Finished(@, AfterBuild(@, model_graphs, version_map))
                    ELSE [@ EXCEPT !.pc = "fetch_upgrade_paths",
                                   !.fetches = 2,
                                   !.graph = AddVersionNodes(
                                                 DictGet(model_graphs, tasks[t].model_id,
                                                         NewGraph),
                                                 versions),
                                   !.version_map = AddVersionEntries(EmptyDict, versions)]]
    /\ UNCHANGED <<model_graphs, version_map, db, call>>

\* the versions query returns `versions`: with none the build returns at
\* once, otherwise the nodes and the local version map are made and the
\* upgrade-path query is awaited
VersionsFetched(t, versions) ==
    /\ tasks[t].pc = "fetch_versions"
    /\ tasks' = [tasks EXCEPT ![t] =
                    IF versions = <<>>
                    THEN Finished(@, AfterBuild(@, model_graphs, version_map))
                    ELSE [@ EXCEPT !.pc = "fetch_upgrade_paths",
                                   !.fetches = 2,
                                   !.graph = AddVersionNodes(NewGraph, versions),
                                   !.version_map = AddVersionEntries(EmptyDict, versions)]]
    /\ UNCHANGED <<model_graphs, version_map, db, call>>

\* the upgrade-path query returns `upgrade_paths`
UpgradePathsFetched(t, upgrade_paths) ==
    /\ tasks[t].pc = "fetch_upgrade_paths"
    /\ tasks' = [tasks EXCEPT ![t] =
                    [@ EXCEPT !.pc = "fetch_compatibilities",
                              !.fetches = 3,
                              !.graph = AddUpgradePaths(@, upgrade_paths)]]
    /\ UNCHANGED <<model_graphs, version_map, db, call>>

\* a last step that caches the graph and leaves the version map for later
CompatibilitiesFetchedGraphOnly(t, compatibilities) ==
    /\ tasks[t].pc = "fetch_compatibilities"
    /\ LET graph == AddCompatibilities(tasks[t].graph, compatibilities)
           graphs == DictUpdate(model_graphs, tasks[t].model_id :> graph)
       IN /\ model_graphs' = graphs
          /\ tasks' = [tasks EXCEPT ![t] = Finished(@, AfterBuild(@, graphs, version_map))]
    /\ UNCHANGED <<version_map, db, call>>

\* a last step after which the call goes on with the cache as it was
\* before its own graph was put there
CompatibilitiesFetchedStale(t, compatibilities) ==
    /\ tasks[t].pc = "fetch_compatibilities"
    /\ LET graph == AddCompatibilities(tasks[t].graph, compatibilities)
           graphs == DictUpdate(model_graphs, tasks[t].model_id :> graph)
           vmap == DictUpdate(version_map, tasks[t].version_map)
       IN /\ model_graphs' = graphs
          /\ version_map' = vmap
          /\ tasks' = [tasks EXCEPT ![t] =
                          Finished(@, AfterBuild(@, model_graphs, version_map))]
    /\ UNCHANGED <<db, call>>

\* the compatibility query returns `compatibilities`: the graph is finished
\* and published, the version map updated, and the call runs to its end
CompatibilitiesFetched(t, compatibilities) ==
    /\ tasks[t].pc = "fetch_compatibilities"
    /\ LET graph == AddCompatibilities(tasks[t].graph, compatibilities)
           graphs == DictUpdate(model_graphs, tasks[t].model_id :> graph)
           vmap == DictUpdate(version_map, tasks[t].version_map)
       IN /\ model_graphs' = graphs
          /\ version_map' = vmap
          /\ tasks' = [tasks EXCEPT ![t] = Finished(@, AfterBuild(@, graphs, vmap))]
    /\ UNCHANGED <<db, call>>

\* a failing query after which the graph made so far is cached
FetchFailsPublishing(t) ==
    /\ Fetching(t)
    /\ model_graphs' = DictUpdate(model_graphs, tasks[t].model_id :> tasks[t].graph)
    /\ tasks' = [tasks EXCEPT ![t] = Finished(@, Raise("DataFetchFailure"))]
    /\ UNCHANGED <<version_map, db, call>>

\* the awaited query fails: the exception leaves build_graph_from_db and
\* compute_upgrade_path, neither of which catches anything
FetchFails(t) ==
    /\ Fetching(t)
    /\ tasks' = [tasks EXCEPT ![t] = Finished(@, Raise("DataFetchFailure"))]
    /\ UNCHANGED <<model_graphs, version_map, db, call>>

\* validate_path that starts a build when the model has no graph
ValidatePathBuilding(t, model_id, from_version_id, to_version_id) ==
    /\ Callable(t)
    /\ LET task == [IdleTask EXCEPT !.op = "validate_path",
                                    !.model_id = model_id,
                                    !.from_version_id = from_version_id,
                                    !.to_version_id = to_version_id]
       IN tasks' = [tasks EXCEPT ![t] =
                       IF model_id \in DOMAIN model_graphs
                       THEN Finished(task, validate_path(model_graphs, model_id,
                                                         from_version_id, to_version_id))
                       ELSE [task EXCEPT !.pc = "fetch_versions", !.fetches = 1]]
    /\ UNCHANGED <<model_graphs, version_map, db, call>>

\* validate_path(model_id, from_version_id, to_version_id) is called: it has
\* no await and runs to its end on the cache as it is
ValidatePath(t, model_id, from_version_id, to_version_id) ==
    /\ Callable(t)
    /\ tasks' = [tasks EXCEPT ![t] =
                    Finished([IdleTask EXCEPT !.op = "validate_path",
                                              !.model_id = model_id,
                                              !.from_version_id = from_version_id,
                                              !.to_version_id = to_version_id],
                             validate_path(model_graphs, model_id,
                                           from_version_id, to_version_id))]
    /\ UNCHANGED <<model_graphs, version_map, db, call>>

\* find_upgrade_path(model_id, from_version_id, to_version_id) is called by
\* a task: it has no await either
QueryUpgradePath(t, model_id, from_version_id, to_version_id) ==
    /\ Callable(t)
    /\ tasks' = [tasks EXCEPT ![t] =
                    Finished([IdleTask EXCEPT !.op = "find_upgrade_path",
                                              !.model_id = model_id,
                                              !.from_version_id = from_version_id,
                                              !.to_version_id = to_version_id],
                             find_upgrade_path(model_graphs, model_id,
                                               from_version_id, to_version_id))]
    /\ UNCHANGED <<model_graphs, version_map, db, call>>

\* what the three queries return for a model while the data source holds db
DbVersions(model_id) ==
    IF model_id \in DOMAIN db THEN db[model_id].versions ELSE <<>>
DbUpgradePaths(model_id) ==
    IF model_id \in DOMAIN db THEN db[model_id].upgrade_paths ELSE <<>>
DbCompatibilities(model_id) ==
    IF model_id \in DOMAIN db THEN AllowedRows(db[model_id].compatibilities) ELSE <<>>


-----------------------------------------------------------------------------
(* Rows of the data source.                                                *)

\* a software_versions row
VersionRow(id) ==
    [id |-> id,
     version_string |-> ToString(id),
     normalized_version |-> Some(ToString(id)),
     eol_status |-> "UNKNOWN",
     eol_date |-> None]

\* an upgrade_paths row with every optional column unset
PlainPathRow(id, from_version_id, to_version_id) ==
    [id |-> id,
     from_version_id |-> from_version_id,
     to_version_id |-> to_version_id,
     mandatory_intermediate_version_ids |-> None,
     risk_level |-> None,
     notes |-> None,
     estimated_downtime_minutes |-> None,
     requires_backup |-> TRUE,
     requires_reboot |-> TRUE]

NoCall == [op |-> "none"]

-----------------------------------------------------------------------------
(* SpecPath: find_upgrade_path on the graphs build_graph_from_db makes of  *)
(* the versions 1..PathVersions and up to PathEdges upgrade-path rows, in  *)
(* any row order.  The model id is 1; PathVersions + 1 is an id that is no *)
(* version of the model.                                                   *)

PathIds == 1..PathVersions
PathPairs == {p \in PathIds \X PathIds : p[1] # p[2]}
PathModel == 1

PathVersionRows == [i \in PathIds |-> VersionRow(i)]

InitPath ==
    \E k \in 0..PathEdges :
        \E es \in [1..k -> PathPairs] :
            /\ \A i, j \in 1..k : es[i] = es[j] => i = j
            /\ db = (PathModel :>
                       [versions |-> PathVersionRows,
                        upgrade_paths |-> [i \in 1..k |-> PlainPathRow(i, es[i][1], es[i][2])],
                        compatibilities |-> <<>>])
            /\ model_graphs = (PathModel :> BuildGraph(DbVersions(PathModel),
                                                       DbUpgradePaths(PathModel),
                                                       DbCompatibilities(PathModel)))
            /\ version_map = AddVersionEntries(EmptyDict, DbVersions(PathModel))
            /\ tasks = <<>>
            /\ call = NoCall

\* a first call of find_upgrade_path(model_id, from_version_id, to_version_id)
FindUpgradePath(model_id, from_version_id, to_version_id) ==
    /\ call.op = "none"
    /\ call' = [op |-> "find_upgrade_path",
                model_id |-> model_id,
                from_version_id |-> from_version_id,
                to_version_id |-> to_version_id,
                result |-> find_upgrade_path(model_graphs, model_id,
                                             from_version_id, to_version_id)]
    /\ UNCHANGED <<model_graphs, version_map, db, tasks>>

\* the same call of find_upgrade_path once more, on the same engine
RepeatFindUpgradePath ==
    /\ call.op = "find_upgrade_path"
    /\ call' = [call EXCEPT !.result =
                    find_upgrade_path(model_graphs, call.model_id,
                                      call.from_version_id, call.to_version_id)]
    /\ UNCHANGED <<model_graphs, version_map, db, tasks>>

NextPath ==
    \/ \E from_version_id, to_version_id \in 1..(PathVersions + 1) :
           FindUpgradePath(PathModel, from_version_id, to_version_id)
    \/ RepeatFindUpgradePath

SpecPath == InitPath /\ [][NextPath]_vars

-----------------------------------------------------------------------------
(* SpecValidate: validate_path on the engines of SpecPath, for the built   *)
(* model with any two ids (PathVersions + 1 is no version) and for a model *)
(* that is not built.                                                      *)

ValidateQueries ==
    ({PathModel} \X (1..(PathVersions + 1)) \X (1..(PathVersions + 1)))
        \cup {<<PathModel + 1, 1, 2>>}

\* the one call of validate_path(model_id, from_version_id, to_version_id)
ValidatePathOnce ==
    /\ call.op = "none"
    /\ \E q \in ValidateQueries :
           call' = [op |-> "validate_path",
                    model_id |-> q[1],
                    from_version_id |-> q[2],
                    to_version_id |-> q[3],
                    result |-> validate_path(model_graphs, q[1], q[2], q[3])]
    /\ UNCHANGED <<model_graphs, version_map, db, tasks>>

NextValidate == ValidatePathOnce

SpecValidate == InitPath /\ [][NextValidate]_vars

-----------------------------------------------------------------------------
(* SpecBuild: one task runs build_graph_from_db on a data source that      *)
(* holds, for the model, up to two versions, up to BuildPathRows           *)
(* upgrade-path rows and up to BuildCompatRows compatibility rows (allowed *)
(* or not), in any order, possibly several for one (from, to) pair.        *)

BuildModel == 1
BuildPairs == {<<1, 2>>, <<2, 1>>}

\* an upgrade_paths row with every optional column set, none to the value
\* the compatibility rows default to
FullPathRow(id, from_version_id, to_version_id) ==
    [id |-> id,
     from_version_id |-> from_version_id,
     to_version_id |-> to_version_id,
     mandatory_intermediate_version_ids |-> Some(<<3>>),
     risk_level |-> Some("MED"),
     notes |-> Some("upgrade"),
     estimated_downtime_minutes |-> Some(15),
     requires_backup |-> FALSE,
     requires_reboot |-> FALSE]

\* a model_version_compatibility row
CompatRow(id, from_version_id, to_version_id, allowed) ==
    [id |-> id,
     from_version_id |-> from_version_id,
     to_version_id |-> to_version_id,
     allowed |-> allowed,
     notes |-> Some("compat")]

InitBuild ==
    \E nv \in 0..2, np \in 0..BuildPathRows, nc \in 0..BuildCompatRows :
        \E pp \in [1..np -> BuildPairs \X BOOLEAN], cc \in [1..nc -> BuildPairs \X BOOLEAN] :
            /\ db = (BuildModel :>
                       [versions |-> [i \in 1..nv |-> VersionRow(i)],
                        upgrade_paths |->
                            [i \in 1..np |->
                                IF pp[i][2]
                                THEN FullPathRow(i, pp[i][1][1], pp[i][1][2])
                                ELSE PlainPathRow(i, pp[i][1][1], pp[i][1][2])],
                        compatibilities |->
                            [i \in 1..nc |->
                                CompatRow(i, cc[i][1][1], cc[i][1][2], cc[i][2])]])
            /\ model_graphs = EmptyDict
            /\ version_map = EmptyDict
            /\ tasks = (1 :> IdleTask)
            /\ call = NoCall

\* the one call of build_graph_from_db
FirstBuildGraphFromDb(t) ==
    /\ tasks[t].pc = "idle"
    /\ BuildGraphFromDb(t, BuildModel)

NextBuild ==
    \/ \E t \in DOMAIN tasks : FirstBuildGraphFromDb(t)
    \/ \E t \in DOMAIN tasks : VersionsFetched(t, DbVersions(tasks[t].model_id))
    \/ \E t \in DOMAIN tasks : UpgradePathsFetched(t, DbUpgradePaths(tasks[t].model_id))
    \/ \E t \in DOMAIN tasks :
           CompatibilitiesFetched(t, DbCompatibilities(tasks[t].model_id))

SpecBuild == InitBuild /\ [][NextBuild]_vars

-----------------------------------------------------------------------------
(* SpecExpand: expand_path_with_intermediates on the graphs                *)
(* build_graph_from_db makes of the versions 1..3 and up to ExpandRows     *)
(* upgrade-path rows, each with its mandatory intermediates unset, empty,  *)
(* one id or two ids.  The input is any sequence of up to ExpandInput      *)
(* pairs of ids, edges of the graph or not; model ExpandModel + 1 is not   *)
(* built.                                                                  *)

ExpandRows == 2
ExpandInput == 2
ExpandModel == 1
ExpandIds == 1..3
ExpandPairs == {<<1, 2>>, <<2, 3>>, <<1, 3>>}
ExpandIntermediates == {None, Some(<<>>), Some(<<2>>), Some(<<2, 3>>)}
\* the edges a caller may pass: any two different ids
ExpandInputPairs == {p \in ExpandIds \X ExpandIds : p[1] # p[2]}

\* an upgrade_paths row with the given mandatory_intermediate_version_ids
IntermediatesPathRow(id, from_version_id, to_version_id, intermediates) ==
    [PlainPathRow(id, from_version_id, to_version_id)
        EXCEPT !.mandatory_intermediate_version_ids = intermediates]

InitExpand ==
    \E k \in 0..ExpandRows :
        \E rs \in [1..k -> ExpandPairs \X ExpandIntermediates] :
            /\ db = (ExpandModel :>
                       [versions |-> [i \in ExpandIds |-> VersionRow(i)],
                        upgrade_paths |->
                            [i \in 1..k |->
                                IntermediatesPathRow(i, rs[i][1][1], rs[i][1][2], rs[i][2])],
                        compatibilities |-> <<>>])
            /\ model_graphs = (ExpandModel :> BuildGraph(DbVersions(ExpandModel),
                                                         DbUpgradePaths(ExpandModel),
                                                         DbCompatibilities(ExpandModel)))
            /\ version_map = AddVersionEntries(EmptyDict, DbVersions(ExpandModel))
            /\ tasks = <<>>
            /\ call = NoCall

\* the one call of expand_path_with_intermediates(model_id, path_edges)
ExpandPathWithIntermediates ==
    /\ call.op = "none"
    /\ \E model_id \in {ExpandModel, ExpandModel + 1}, k \in 0..ExpandInput :
           \E path_edges \in [1..k -> ExpandInputPairs] :
               call' = [op |-> "expand_path_with_intermediates",
                        model_id |-> model_id,
                        path_edges |-> path_edges,
                        result |-> expand_path_with_intermediates(
                                       model_graphs, model_id, path_edges)]
    /\ UNCHANGED <<model_graphs, version_map, db, tasks>>

NextExpand == ExpandPathWithIntermediates

SpecExpand == InitExpand /\ [][NextExpand]_vars

-----------------------------------------------------------------------------
(* SpecCompute: one task calls compute_upgrade_path once, for any two of   *)
(* the versions, on the engines of SpecExpand, whose model is built.       *)

InitCompute ==
    \E k \in 0..ExpandRows :
        \E rs \in [1..k -> ExpandPairs \X ExpandIntermediates] :
            /\ db = (ExpandModel :>
                       [versions |-> [i \in ExpandIds |-> VersionRow(i)],
                        upgrade_paths |->
                            [i \in 1..k |->
                                IntermediatesPathRow(i, rs[i][1][1], rs[i][1][2], rs[i][2])],
                        compatibilities |-> <<>>])
            /\ model_graphs = (ExpandModel :> BuildGraph(DbVersions(ExpandModel),
                                                         DbUpgradePaths(ExpandModel),
                                                         DbCompatibilities(ExpandModel)))
            /\ version_map = AddVersionEntries(EmptyDict, DbVersions(ExpandModel))
            /\ tasks = (1 :> IdleTask)
            /\ call = NoCall

\* the one call of compute_upgrade_path
FirstComputeUpgradePath(t, from_version_id, to_version_id) ==
    /\ tasks[t].pc = "idle"
    /\ ComputeUpgradePath(t, ExpandModel, from_version_id, to_version_id)

NextCompute ==
    \E t \in DOMAIN tasks, from_version_id, to_version_id \in ExpandIds :
        FirstComputeUpgradePath(t, from_version_id, to_version_id)

SpecCompute == InitCompute /\ [][NextCompute]_vars

-----------------------------------------------------------------------------
(* SpecSummary: calculate_overall_risk and calculate_total_downtime on any *)
(* list of up to MaxSteps step dicts of the shape get_path_details makes,  *)
(* with any risk level and any downtime estimate (none, zero or positive). *)

MaxSteps == 3
SummaryRisks == {"LOW", "MED", "HIGH"}
SummaryDowntimes == {None, Some(0), Some(5), Some(30)}

\* the step dict of the i-th hop with the given risk and downtime
SummaryStep(i, risk_level, downtime) ==
    [from_version_id |-> i,
     to_version_id |-> i + 1,
     from_version |-> Some(ToString(i)),
     to_version |-> Some(ToString(i + 1)),
     risk_level |-> risk_level,
     notes |-> None,
     estimated_downtime_minutes |-> downtime,
     requires_backup |-> TRUE,
     requires_reboot |-> TRUE,
     mandatory_intermediates |-> <<>>]

SummaryStepLists ==
    UNION {{[i \in 1..n |-> SummaryStep(i, rd[i][1], rd[i][2])] :
                rd \in [1..n -> SummaryRisks \X SummaryDowntimes]} : n \in 0..MaxSteps}

InitSummary ==
    /\ model_graphs = EmptyDict
    /\ version_map = EmptyDict
    /\ db = EmptyDict
    /\ tasks = <<>>
    /\ call = NoCall

\* the one call, of calculate_overall_risk(steps)
CalculateOverallRisk ==
    /\ call.op = "none"
    /\ \E steps \in SummaryStepLists :
           call' = [op |-> "calculate_overall_risk",
                    steps |-> steps,
                    result |-> calculate_overall_risk(steps)]
    /\ UNCHANGED <<model_graphs, version_map, db, tasks>>

\* the one call, of calculate_total_downtime(steps)
CalculateTotalDowntime ==
    /\ call.op = "none"
    /\ \E steps \in SummaryStepLists :
           call' = [op |-> "calculate_total_downtime",
                    steps |-> steps,
                    result |-> calculate_total_downtime(steps)]
    /\ UNCHANGED <<model_graphs, version_map, db, tasks>>

NextSummary ==
    \/ CalculateOverallRisk
    \/ CalculateTotalDowntime

SpecSummary == InitSummary /\ [][NextSummary]_vars

-----------------------------------------------------------------------------
(* Spec: one engine shared by EngineTasks tasks that call                  *)
(* compute_upgrade_path, build_graph_from_db, validate_path and            *)
(* find_upgrade_path for one model and interleave at the data fetches.     *)
(* The data source is left open: each query returns any of a few row       *)
(* lists, or fails.                                                        *)

EngineTasks == 2
EngineVersions == 2
EngineModel == 1
\* the (from, to) a caller asks about: a version to itself, both directions
\* between two versions, and a version to an id that is no version
EngineQueries ==
    {<<1, 1>>, <<1, EngineVersions>>, <<EngineVersions, 1>>, <<1, EngineVersions + 1>>}

EngineVersionLists == {[i \in 1..n |-> VersionRow(i)] : n \in 0..EngineVersions}
EnginePathLists == {<<>>, <<PlainPathRow(1, 1, 2)>>, <<FullPathRow(1, 1, 2)>>}
EngineCompatLists == {<<>>, <<CompatRow(1, 2, 1, TRUE)>>}

Init ==
    /\ model_graphs = EmptyDict
    /\ version_map = EmptyDict
    /\ db = EmptyDict
    /\ tasks = [t \in 1..EngineTasks |-> IdleTask]
    /\ call = NoCall

Next ==
    \/ \E t \in DOMAIN tasks, q \in EngineQueries :
           ComputeUpgradePath(t, EngineModel, q[1], q[2])
    \/ \E t \in DOMAIN tasks : BuildGraphFromDb(t, EngineModel)
    \/ \E t \in DOMAIN tasks, q \in EngineQueries :
           ValidatePath(t, EngineModel, q[1], q[2])
    \/ \E t \in DOMAIN tasks, q \in EngineQueries :
           QueryUpgradePath(t, EngineModel, q[1], q[2])
    \/ \E t \in DOMAIN tasks, versions \in EngineVersionLists :
           VersionsFetched(t, versions)
    \/ \E t \in DOMAIN tasks, upgrade_paths \in EnginePathLists :
           UpgradePathsFetched(t, upgrade_paths)
    \/ \E t \in DOMAIN tasks, compatibilities \in EngineCompatLists :
           CompatibilitiesFetched(t, compatibilities)
    \/ \E t \in DOMAIN tasks : FetchFails(t)

Spec == Init /\ [][Next]_vars

-----------------------------------------------------------------------------
(* SpecCache: the same engine and tasks with two model ids, each call for  *)
(* either of them, on a data source that holds for a model no version or   *)
(* version 1, and no upgrade path or one.                                  *)

CacheModels == {1, 2}
CacheVersionLists == {<<>>, <<VersionRow(1)>>}
CachePathLists == {<<>>, <<PlainPathRow(1, 1, 2)>>}

NextCache ==
    \/ \E t \in DOMAIN tasks, model_id \in CacheModels :
           ComputeUpgradePath(t, model_id, 1, 2)
    \/ \E t \in DOMAIN tasks, model_id \in CacheModels : BuildGraphFromDb(t, model_id)
    \/ \E t \in DOMAIN tasks, model_id \in CacheModels : ValidatePath(t, model_id, 1, 2)
    \/ \E t \in DOMAIN tasks, model_id \in CacheModels :
           QueryUpgradePath(t, model_id, 1, 2)
    \/ \E t \in DOMAIN tasks, versions \in CacheVersionLists :
           VersionsFetched(t, versions)
    \/ \E t \in DOMAIN tasks, upgrade_paths \in CachePathLists :
           UpgradePathsFetched(t, upgrade_paths)
    \/ \E t \in DOMAIN tasks : CompatibilitiesFetched(t, <<>>)
    \/ \E t \in DOMAIN tasks : FetchFails(t)

SpecCache == Init /\ [][NextCache]_vars

-----------------------------------------------------------------------------
(* Reference notions for the path claims, none of them computed by the     *)
(* search: hop distance by set iteration, and the plain forward            *)
(* breadth-first search.                                                   *)

EdgePairs(g) == {<<g.edges[i].u, g.edges[i].v>> : i \in 1..Len(g.edges)}

\* the nodes at most k hops from source
RECURSIVE Within(_, _, _)
Within(g, source, k) ==
    IF k = 0 THEN {source}
    ELSE LET W == Within(g, source, k - 1) IN
         W \cup {p[2] : p \in {q \in EdgePairs(g) : q[1] \in W}}

Reachable(g, source, target) ==
    /\ source \in g.nodes
    /\ target \in g.nodes
    /\ target \in Within(g, source, Cardinality(g.nodes))

MinHops(g, source, target) ==
    CHOOSE k \in 0..Cardinality(g.nodes) :
        /\ target \in Within(g, source, k)
        /\ \A j \in 0..(k - 1) : target \notin Within(g, source, j)

\* is `edges` a chain of graph edges from source to target
IsRoute(g, edges, source, target) ==
    /\ \A i \in 1..Len(edges) : edges[i] \in EdgePairs(g)
    /\ \A i \in 1..(Len(edges) - 1) : edges[i][2] = edges[i + 1][1]
    /\ IF edges = <<>> THEN source = target
       ELSE edges[1][1] = source /\ edges[Len(edges)][2] = target

\* the routes of exactly n edges from source to target
RoutesOfLength(g, n, source, target) ==
    {r \in [1..n -> EdgePairs(g)] : IsRoute(g, r, source, target)}

\* forward breadth-first search from source, each node's out-neighbours taken
\* in edge-insertion order; parent[w] is the node that discovered w first
RECURSIVE DiscoverAll(_, _, _, _)
DiscoverAll(v, ws, parent, queue) ==
    IF ws = <<>> THEN [parent |-> parent, queue |-> queue]
    ELSE IF Head(ws) \in DOMAIN parent
    THEN DiscoverAll(v, Tail(ws), parent, queue)
    ELSE DiscoverAll(v, Tail(ws), parent @@ (Head(ws) :> Some(v)), Append(queue, Head(ws)))

RECURSIVE ForwardBfs(_, _, _)
ForwardBfs(g, queue, parent) ==
    IF queue = <<>> THEN parent
    ELSE LET d == DiscoverAll(Head(queue), SuccList(g, Head(queue)), parent, Tail(queue))
         IN ForwardBfs(g, d.queue, d.parent)

\* the edge list of the path the forward search finds (target reachable)
ForwardBfsRoute(g, source, target) ==
    LET parent == ForwardBfs(g, <<source>>, (source :> None))
        nodes == Reverse(Chase(parent, Some(target)))
    IN [i \in 1..(Len(nodes) - 1) |-> <<nodes[i], nodes[i + 1]>>]

\* the graph the last call ran on
CallGraph == model_graphs[call.model_id]

FindDone == call.op = "find_upgrade_path" /\ call.model_id \in DOMAIN model_graphs

-----------------------------------------------------------------------------
(* Path search: C1, C2, C8, C9, C10 (under SpecPath).                      *)

CallReachable == Reachable(CallGraph, call.from_version_id, call.to_version_id)
CallMinHops == MinHops(CallGraph, call.from_version_id, call.to_version_id)
CallReturned == call.result.raised = "none" /\ ~IsNone(call.result.value)
CallEdges == call.result.value[1]

\* C1: for every built graph and every pair (from, to) with to reachable
\* from from, find_upgrade_path returns an edge sequence whose length is the
\* minimum number of hops from from to to.
C1_ShortestPathLength ==
    (FindDone /\ CallReachable) =>
        /\ CallReturned
        /\ Len(CallEdges) = CallMinHops

\* C1 witness: a two-hop answer in a full-size graph that also holds a route
\* of three edges between the same endpoints.
C1_Witness ==
    /\ FindDone /\ CallReachable /\ CallReturned
    /\ Len(CallGraph.edges) = PathEdges
    /\ Len(CallEdges) = 2
    /\ RoutesOfLength(CallGraph, 3, call.from_version_id, call.to_version_id) # {}

\* C2 as claimed: among several shortest paths find_upgrade_path returns the
\* one a forward breadth-first search finds with out-neighbours in
\* edge-insertion order.
C2_ForwardBfsTieBreak ==
    (FindDone /\ CallReachable) =>
        call.result = Return(Some(ForwardBfsRoute(CallGraph, call.from_version_id,
                                                  call.to_version_id)))

\* the middle node of the two-hop answer: the first in-neighbour of target,
\* in edge-insertion order, that is an out-neighbour of source
FirstMiddle(g, source, target) ==
    LET ps == PredList(g, target)
        ok(i) == <<source, ps[i]>> \in EdgePairs(g)
        i == CHOOSE j \in 1..Len(ps) : ok(j) /\ \A k \in 1..(j - 1) : ~ok(k)
    IN ps[i]

\* C2 as amended: find_upgrade_path returns a shortest route fixed by the
\* edge-insertion order, the one the bidirectional search of
\* nx.shortest_path meets first: it is the forward search's path when the
\* shortest path is unique, and among several two-hop paths it is the one
\* through the first in-neighbour of to (in insertion order) that is an
\* out-neighbour of from; a repeated call returns the same sequence.
C2_TieBreakState ==
    (FindDone /\ CallReachable) =>
        /\ CallReturned
        /\ IsRoute(CallGraph, CallEdges, call.from_version_id, call.to_version_id)
        /\ Len(CallEdges) = Len(ForwardBfsRoute(CallGraph, call.from_version_id,
                                                call.to_version_id))
        /\ (Cardinality(RoutesOfLength(CallGraph, CallMinHops, call.from_version_id,
                                       call.to_version_id)) = 1
               => CallEdges = ForwardBfsRoute(CallGraph, call.from_version_id,
                                              call.to_version_id))
        /\ (CallMinHops = 2
               => LET m == FirstMiddle(CallGraph, call.from_version_id, call.to_version_id)
                  IN CallEdges = <<<<call.from_version_id, m>>, <<m, call.to_version_id>>>>)

C2_TieBreak ==
    /\ []C2_TieBreakState
    /\ [][call.op = "find_upgrade_path" => call'.result = call.result]_vars

\* C2 witness: two shortest two-hop paths, and the answer is not the forward
\* search's.
C2_Witness ==
    /\ FindDone /\ CallReachable /\ CallReturned
    /\ CallMinHops = 2
    /\ Cardinality(RoutesOfLength(CallGraph, 2, call.from_version_id,
                                  call.to_version_id)) = 2
    /\ CallEdges # ForwardBfsRoute(CallGraph, call.from_version_id, call.to_version_id)

\* C8: for every node v of a built graph find_upgrade_path(model, v, v)
\* returns the empty edge sequence, not the no-path outcome.
C8_SelfPathEmpty ==
    (FindDone /\ call.from_version_id = call.to_version_id
             /\ call.from_version_id \in CallGraph.nodes) =>
        call.result = Return(Some(<<>>))

\* C8 witness: a self query on a node that has outgoing edges and lies on no
\* cycle.
C8_Witness ==
    /\ FindDone /\ call.from_version_id = call.to_version_id
    /\ call.from_version_id \in CallGraph.nodes
    /\ SuccList(CallGraph, call.from_version_id) # <<>>
    /\ \A n \in 1..PathVersions :
           RoutesOfLength(CallGraph, n, call.from_version_id, call.from_version_id) = {}
    /\ call.result = Return(Some(<<>>))

\* C9 as claimed: a request whose from or to id is no node of the graph has
\* an outcome different from that of every request between two nodes that
\* no directed route connects.
C9_MissingVersionDistinct ==
    (FindDone /\ (call.from_version_id \notin CallGraph.nodes
                    \/ call.to_version_id \notin CallGraph.nodes)) =>
        \A a, b \in CallGraph.nodes :
            ~Reachable(CallGraph, a, b) =>
                call.result # find_upgrade_path(model_graphs, call.model_id, a, b)

\* C10: find_upgrade_path returns None, and raises nothing, whenever both
\* ids are nodes of the graph and to is not reachable from from.
C10_UnreachableIsNone ==
    (FindDone /\ call.from_version_id \in CallGraph.nodes
             /\ call.to_version_id \in CallGraph.nodes
             /\ ~CallReachable) =>
        call.result = Return(None)

\* C10 witness: a backward query in a graph whose edges all point from the
\* lower to the higher id, between two nodes joined in the forward direction.
C10_Witness ==
    /\ FindDone /\ call.result = Return(None)
    /\ CallGraph.edges # <<>>
    /\ \A p \in EdgePairs(CallGraph) : p[1] < p[2]
    /\ call.from_version_id \in CallGraph.nodes
    /\ call.to_version_id \in CallGraph.nodes
    /\ call.to_version_id < call.from_version_id
    /\ Reachable(CallGraph, call.to_version_id, call.from_version_id)

-----------------------------------------------------------------------------
(* Build precedence: C3 (under SpecBuild).                                 *)

\* positions of the rows of `rows` that join from_id to to_id
RowsFor(rows, from_id, to_id) ==
    {i \in 1..Len(rows) : rows[i].from_version_id = from_id /\ rows[i].to_version_id = to_id}

Max(S) == CHOOSE x \in S : \A y \in S : y <= x

BuildDone(t) ==
    /\ tasks[t].pc = "done"
    /\ tasks[t].op = "build_graph_from_db"
    /\ tasks[t].result = Return(None)
    /\ tasks[t].model_id \in DOMAIN model_graphs

\* the edge of the built graph for a pair is the one edge of the pair and
\* carries the columns of the upgrade-path row `path`
CarriesUpgradePath(graph, path) ==
    LET at == {i \in 1..Len(graph.edges) :
                  /\ graph.edges[i].u = path.from_version_id
                  /\ graph.edges[i].v = path.to_version_id}
    IN /\ Cardinality(at) = 1
       /\ \A i \in at :
            LET attr == graph.edges[i].attr IN
            /\ "compatibility_id" \notin DOMAIN attr
            /\ attr.path_id = path.id
            /\ attr.risk_level = (IF path.risk_level = None THEN "LOW"
                                  ELSE path.risk_level[1])
            /\ attr.mandatory_intermediates =
                   (IF path.mandatory_intermediate_version_ids = None THEN <<>>
                    ELSE path.mandatory_intermediate_version_ids[1])
            /\ attr.notes = path.notes
            /\ attr.estimated_downtime_minutes = path.estimated_downtime_minutes
            /\ attr.requires_backup = path.requires_backup
            /\ attr.requires_reboot = path.requires_reboot

\* C3: when the data source holds an upgrade-path row and an allowed
\* compatibility row for the same (from, to), the built graph has exactly
\* one edge for the pair and it carries the upgrade-path row's columns (of
\* the last such row when there are several), never the compatibility
\* defaults, whatever the order of the rows.
C3_UpgradePathPrecedence ==
    \A t \in DOMAIN tasks :
        BuildDone(t) =>
            LET m == tasks[t].model_id
                paths == db[m].upgrade_paths
                compats == db[m].compatibilities
            IN \A p \in BuildPairs :
                   (/\ RowsFor(paths, p[1], p[2]) # {}
                    /\ \E j \in RowsFor(compats, p[1], p[2]) : compats[j].allowed)
                   => CarriesUpgradePath(model_graphs[m],
                                         paths[Max(RowsFor(paths, p[1], p[2]))])

\* C3 witness: a finished build over a fully set upgrade-path row and an
\* allowed compatibility row for the same pair.
C3_Witness ==
    \E t \in DOMAIN tasks :
        /\ BuildDone(t)
        /\ \E i \in 1..Len(db[BuildModel].upgrade_paths),
              j \in 1..Len(db[BuildModel].compatibilities) :
               LET path == db[BuildModel].upgrade_paths[i]
                   compat == db[BuildModel].compatibilities[j]
               IN /\ compat.allowed
                  /\ path.risk_level = Some("MED")
                  /\ path.from_version_id = compat.from_version_id
                  /\ path.to_version_id = compat.to_version_id
                  /\ CarriesUpgradePath(model_graphs[BuildModel], path)

-----------------------------------------------------------------------------
(* Intermediate expansion: C4 (under SpecExpand).                          *)

ExpandDone == call.op = "expand_path_with_intermediates"

\* the mandatory intermediates of the graph's edge from a to b, none when
\* the graph has no such edge
EdgeIntermediates(g, a, b) ==
    LET at == {i \in 1..Len(g.edges) : g.edges[i].u = a /\ g.edges[i].v = b}
    IN IF at = {} THEN <<>>
       ELSE g.edges[CHOOSE i \in at : TRUE].attr.mandatory_intermediates

\* the chain (a, i1), (i1, i2), ..., (ik, b) for s = [i1, ..., ik]; it is
\* the edge (a, b) alone when s is empty
ChainOf(a, s, b) ==
    [j \in 1..(Len(s) + 1) |->
        <<IF j = 1 THEN a ELSE s[j - 1], IF j = Len(s) + 1 THEN b ELSE s[j]>>]

\* how many edges the chains of the input edges before the i-th hold
RECURSIVE ChainStart(_, _, _)
ChainStart(g, path_edges, i) ==
    IF i = 1 THEN 0
    ELSE ChainStart(g, path_edges, i - 1)
         + Len(EdgeIntermediates(g, path_edges[i - 1][1], path_edges[i - 1][2])) + 1

\* C4: expand_path_with_intermediates replaces every input edge (a, b) whose
\* graph edge has non-empty mandatory intermediates [i1, ..., ik] by the
\* chain (a, i1), (i1, i2), ..., (ik, b), keeps every other input edge as it
\* is, an edge the graph does not have included, and preserves the order of
\* the input edges.
C4_ExpandChains ==
    ExpandDone =>
        IF call.model_id \notin DOMAIN model_graphs
        THEN call.result = call.path_edges
        ELSE LET g == model_graphs[call.model_id] IN
             /\ Len(call.result) = ChainStart(g, call.path_edges, Len(call.path_edges) + 1)
             /\ \A i \in 1..Len(call.path_edges) :
                    LET a == call.path_edges[i][1]
                        b == call.path_edges[i][2]
                        chain == ChainOf(a, EdgeIntermediates(g, a, b), b)
                    IN \A j \in 1..Len(chain) :
                           call.result[ChainStart(g, call.path_edges, i) + j] = chain[j]

\* C4 witness: an edge with two mandatory intermediates followed by an edge
\* the graph does not have, expanded to four edges.
C4_Witness ==
    /\ ExpandDone
    /\ call.model_id \in DOMAIN model_graphs
    /\ Len(call.path_edges) = 2
    /\ Len(EdgeIntermediates(model_graphs[call.model_id],
                             call.path_edges[1][1], call.path_edges[1][2])) = 2
    /\ ~has_edge(model_graphs[call.model_id],
                 call.path_edges[2][1], call.path_edges[2][2])
    /\ Len(call.result) = 4
    /\ call.result[4] = call.path_edges[2]

-----------------------------------------------------------------------------
(* Risk and downtime of a step list: C5, C6 (under SpecSummary).           *)

RiskDone == call.op = "calculate_overall_risk"
DowntimeDone == call.op = "calculate_total_downtime"

\* the order HIGH > MED > LOW
Severity(risk_level) ==
    CASE risk_level = "HIGH" -> 3
      [] risk_level = "MED" -> 2
      [] OTHER -> 1

\* C5: calculate_overall_risk returns the maximum severity of the steps
\* under HIGH > MED > LOW (LOW for no steps), whatever the number, values
\* and order of the steps.
C5_MaximumSeverity ==
    RiskDone =>
        /\ call.result \in SummaryRisks
        /\ \A i \in 1..Len(call.steps) :
               Severity(call.steps[i].risk_level) <= Severity(call.result)
        /\ IF call.steps = <<>>
           THEN call.result = "LOW"
           ELSE \E i \in 1..Len(call.steps) : call.steps[i].risk_level = call.result

\* C5 witness: a full list with a MED step first, a LOW step and a HIGH step
\* last, judged HIGH.
C5_Witness ==
    /\ RiskDone
    /\ Len(call.steps) = MaxSteps
    /\ call.steps[1].risk_level = "MED"
    /\ \E i \in 1..Len(call.steps) : call.steps[i].risk_level = "LOW"
    /\ call.steps[MaxSteps].risk_level = "HIGH"
    /\ call.result = "HIGH"

\* positions of the steps that carry a downtime estimate
Estimated(steps) ==
    {i \in 1..Len(steps) : steps[i].estimated_downtime_minutes # None}

\* the sum of the estimates at the positions S
RECURSIVE SumOver(_, _)
SumOver(steps, S) ==
    IF S = {} THEN 0
    ELSE LET i == CHOOSE j \in S : TRUE
         IN steps[i].estimated_downtime_minutes[1] + SumOver(steps, S \ {i})

\* C6: calculate_total_downtime returns None when the list is empty or no
\* step carries an estimate, and otherwise the sum of the estimates, a step
\* without one counting as 0; one step with downtime 0 gives 0, not None.
C6_TotalDowntime ==
    DowntimeDone =>
        IF Estimated(call.steps) = {}
        THEN call.result = None
        ELSE call.result = Some(SumOver(call.steps, Estimated(call.steps)))

\* C6 witness: the one-step list whose step has downtime 0, totalled to 0.
C6_Witness ==
    /\ DowntimeDone
    /\ Len(call.steps) = 1
    /\ call.steps[1].estimated_downtime_minutes = Some(0)
    /\ call.result = Some(0)

-----------------------------------------------------------------------------
(* compute_upgrade_path: C7 (under Spec).                                  *)

\* task t's call of compute_upgrade_path returns in this step
ComputeReturns(t) ==
    /\ tasks'[t] # tasks[t]
    /\ tasks'[t].pc = "done"
    /\ tasks'[t].op = "compute_upgrade_path"
    /\ tasks'[t].result.raised = "none"

\* C7 as claimed: compute_upgrade_path returns None only when the model has
\* no graph (it has no versions) or find_upgrade_path returns None; in every
\* other case it returns a result, and for from = to on a node of the graph
\* that result has zero steps.
C7_NotFoundOnlyWithoutPath ==
    [][\A t \in DOMAIN tasks :
          ComputeReturns(t) =>
              IF \/ tasks'[t].model_id \notin DOMAIN model_graphs'
                 \/ find_upgrade_path(model_graphs', tasks'[t].model_id,
                                      tasks'[t].from_version_id,
                                      tasks'[t].to_version_id) = Return(None)
              THEN tasks'[t].result = Return(None)
              ELSE /\ tasks'[t].result.value # None
                   /\ (tasks'[t].from_version_id = tasks'[t].to_version_id
                          => /\ tasks'[t].result.value[1].steps = <<>>
                             /\ tasks'[t].result.value[1].step_count = 0)]_vars

-----------------------------------------------------------------------------
(* The cache of built graphs: C11 (under Spec).                            *)

\* C11 as claimed: when a compute_upgrade_path call returns, its data
\* fetches having succeeded, its model id is a key of model_graphs; when the
\* versions fetch of its build returned no versions and no graph was cached
\* before, the cached graph is the empty graph.
C11_BuiltAfterCompute ==
    [][\A t \in DOMAIN tasks :
          ComputeReturns(t) =>
              /\ tasks'[t].model_id \in DOMAIN model_graphs'
              /\ (tasks[t].pc = "fetch_versions"
                     /\ tasks[t].model_id \notin DOMAIN model_graphs)
                  => model_graphs'[tasks'[t].model_id] = NewGraph]_vars

\* a task's last call was an explicit rebuild of model_id that failed
RebuildFailed(t, model_id) ==
    /\ tasks[t].pc = "done" /\ tasks[t].op = "build_graph_from_db"
    /\ tasks[t].model_id = model_id
    /\ tasks[t].result.raised # "none"

\* a task's last call was an explicit rebuild of model_id that found no
\* versions
RebuildEmpty(t, model_id) ==
    /\ tasks[t].pc = "done" /\ tasks[t].op = "build_graph_from_db"
    /\ tasks[t].model_id = model_id
    /\ tasks[t].result.raised = "none" /\ tasks[t].fetches = 1

\* C12: over any sequence of engine operations (compute_upgrade_path,
\* explicit rebuilds, failed and empty ones included, validate_path, path
\* queries) a model id that is a key of model_graphs stays a key.
C12_BuiltStaysBuilt ==
    [][DOMAIN model_graphs \subseteq DOMAIN model_graphs']_vars

\* C12 witness: both models are built, and the last calls of the two tasks
\* are a failed and an empty rebuild of model 1, neither of which published
\* anything: one of them ran when model 1 was built already.
C12_Witness ==
    /\ DOMAIN model_graphs = CacheModels
    /\ DOMAIN tasks = {1, 2}
    /\ RebuildFailed(1, 1)
    /\ RebuildEmpty(2, 1)

-----------------------------------------------------------------------------
(* Reads and builds on the shared engine: C13 (under Spec).                *)

\* task t calls `op` in this step
Calls(t, op) ==
    /\ Callable(t)
    /\ tasks'[t] # tasks[t]
    /\ tasks'[t].op = op

\* C13: compute_upgrade_path and validate_path on a model that is built
\* leave model_graphs and version_map as they are and make no data fetch.
C13_ReadsLeaveStateUnchanged ==
    [][\A t \in DOMAIN tasks :
          ((Calls(t, "compute_upgrade_path") \/ Calls(t, "validate_path"))
              /\ tasks'[t].model_id \in DOMAIN model_graphs)
          => /\ model_graphs' = model_graphs
             /\ version_map' = version_map
             /\ tasks'[t].pc = "done"
             /\ tasks'[t].fetches = 0]_vars

\* C13 witness: one task's compute_upgrade_path returned a result without a
\* fetch and the other's validate_path returned (true, none), so both ran
\* on a built model.
C13_Witness ==
    \E t, u \in DOMAIN tasks :
        /\ tasks[t].pc = "done" /\ tasks[t].op = "compute_upgrade_path"
        /\ tasks[t].fetches = 0
        /\ tasks[t].result.raised = "none" /\ tasks[t].result.value # None
        /\ tasks[u].pc = "done" /\ tasks[u].op = "validate_path"
        /\ tasks[u].result = Return(<<TRUE, None>>)
        /\ tasks[t].model_id \in DOMAIN model_graphs

\* C14: validate_path never builds a graph: called for a model that is not
\* built it returns (false, "No graph available for model"), makes no data
\* fetch and leaves model_graphs and version_map as they are, the model
\* still not built; compute_upgrade_path for such a model starts the build
\* with the versions fetch, and when that build has fetched its last rows
\* the model is built.
C14_ValidateNeverBuilds ==
    [][\A t \in DOMAIN tasks :
          /\ (Calls(t, "validate_path")
                 /\ tasks'[t].model_id \notin DOMAIN model_graphs)
             => /\ tasks'[t].pc = "done"
                /\ tasks'[t].result = Return(<<FALSE, Some("No graph available for model")>>)
                /\ tasks'[t].fetches = 0
                /\ model_graphs' = model_graphs
                /\ version_map' = version_map
          /\ (Calls(t, "compute_upgrade_path")
                 /\ tasks'[t].model_id \notin DOMAIN model_graphs)
             => /\ tasks'[t].pc = "fetch_versions"
                /\ tasks'[t].fetches = 1
          /\ (tasks[t].pc = "fetch_compatibilities" /\ ComputeReturns(t))
             => tasks'[t].model_id \in DOMAIN model_graphs']_vars

\* C14 witness: validate_path has answered that the model has no graph, the
\* model is still not built, and the other task's compute_upgrade_path for
\* the same model is in its build.
C14_Witness ==
    \E t, u \in DOMAIN tasks :
        /\ tasks[t].pc = "done" /\ tasks[t].op = "validate_path"
        /\ tasks[t].result = Return(<<FALSE, Some("No graph available for model")>>)
        /\ tasks[t].model_id \notin DOMAIN model_graphs
        /\ tasks[u].op = "compute_upgrade_path" /\ Fetching(u)
        /\ tasks[u].model_id = tasks[t].model_id

-----------------------------------------------------------------------------
(* validate_path: C15 (under SpecValidate).                                *)

ValidateDone == call.op = "validate_path"

\* the reasons validate_path gives for an id that is no node of the graph
VersionNotFoundReasons == {"Source version not found", "Target version not found"}

\* C15: validate_path returns (false, reason) exactly when the model is not
\* built, or from or to is no node of its graph, or no directed path leads
\* from from to to, the reason of a missing version being another than that
\* of a missing path; in every other case it returns (true, none).
C15_ValidateOutcomes ==
    ValidateDone =>
        /\ call.result.raised = "none"
        /\ LET is_valid == call.result.value[1]
               reason == call.result.value[2]
           IN IF call.model_id \notin DOMAIN model_graphs
              THEN ~is_valid /\ reason # None
              ELSE IF \/ call.from_version_id \notin CallGraph.nodes
                      \/ call.to_version_id \notin CallGraph.nodes
              THEN ~is_valid /\ reason # None /\ reason[1] \in VersionNotFoundReasons
              ELSE IF ~CallReachable
              THEN ~is_valid /\ reason # None /\ reason[1] \notin VersionNotFoundReasons
              ELSE is_valid /\ reason = None

\* C15 witness: two nodes of a graph with edges, joined in one direction
\* only, asked in the other: (false, "No upgrade path exists").
C15_Witness ==
    /\ ValidateDone
    /\ call.model_id \in DOMAIN model_graphs
    /\ call.from_version_id \in CallGraph.nodes
    /\ call.to_version_id \in CallGraph.nodes
    /\ Reachable(CallGraph, call.to_version_id, call.from_version_id)
    /\ ~CallReachable
    /\ call.result = Return(<<FALSE, Some("No upgrade path exists")>>)

-----------------------------------------------------------------------------
(* Failing fetches and concurrent builds: C16, C17, C18 (under Spec).      *)

\* task t's call ends in this step with an exception
Fails(t) ==
    /\ Fetching(t)
    /\ tasks'[t].pc = "done"
    /\ tasks'[t].result.raised # "none"

\* C16: when a data fetch of a build fails, whichever of the three, the
\* failure reaches the caller as it is, no fetch is made again, nothing is
\* written to model_graphs or version_map, and a later compute_upgrade_path
\* of the caller for a model still not built starts the build again.
C16_FetchFailurePropagates ==
    [][\A t \in DOMAIN tasks :
          /\ Fails(t)
             => /\ tasks'[t].result = Raise("DataFetchFailure")
                /\ tasks'[t].fetches = tasks[t].fetches
                /\ model_graphs' = model_graphs
                /\ version_map' = version_map
          /\ (/\ tasks[t].pc = "done" /\ tasks[t].result.raised # "none"
              /\ Calls(t, "compute_upgrade_path")
              /\ tasks'[t].model_id \notin DOMAIN model_graphs)
             => /\ tasks'[t].pc = "fetch_versions"
                /\ tasks'[t].fetches = 1]_vars

\* C16 witness: a compute_upgrade_path call has failed in its third fetch,
\* versions and upgrade paths fetched, and neither map has an entry.
C16_Witness ==
    \E t \in DOMAIN tasks :
        /\ tasks[t].pc = "done" /\ tasks[t].op = "compute_upgrade_path"
        /\ tasks[t].result = Raise("DataFetchFailure")
        /\ tasks[t].fetches = 3
        /\ DOMAIN model_graphs = {}
        /\ DOMAIN version_map = {}

\* the graphs a build can make of what the data source returns
CompleteGraphs ==
    {BuildGraph(versions, upgrade_paths, compatibilities) :
        versions \in EngineVersionLists \ {<<>>},
        upgrade_paths \in EnginePathLists,
        compatibilities \in EngineCompatLists}

\* task t's build caches its graph in this step: it has fetched all three
\* row lists, and the graph cached is its own, with the compatibility rows
\* just fetched added
Publishes(t) ==
    /\ tasks[t].pc = "fetch_compatibilities"
    /\ tasks[t].fetches = 3
    /\ tasks'[t].pc = "done"
    /\ \E compatibilities \in EngineCompatLists :
           model_graphs' =
               DictUpdate(model_graphs,
                          tasks[t].model_id :>
                              AddCompatibilities(tasks[t].graph, compatibilities))

\* C17: under any interleaving of compute_upgrade_path, rebuilds and reads,
\* every graph in model_graphs is the whole graph of one build, and
\* model_graphs changes only in the step in which a build that has fetched
\* everything puts its finished graph under its model id: no graph is
\* visible while it is being made, and no other key is touched.
C17_NoHalfPopulatedGraph ==
    /\ [](\A m \in DOMAIN model_graphs :
             m = EngineModel /\ model_graphs[m] \in CompleteGraphs)
    /\ [][model_graphs' # model_graphs => \E t \in DOMAIN tasks : Publishes(t)]_vars

\* C17 witness: the cache holds a graph with two edges while a rebuild of
\* the same model is under way with a graph that has nodes and no edge yet.
C17_Witness ==
    \E t \in DOMAIN tasks :
        /\ EngineModel \in DOMAIN model_graphs
        /\ Len(model_graphs[EngineModel].edges) = 2
        /\ tasks[t].pc = "fetch_compatibilities"
        /\ tasks[t].model_id = EngineModel
        /\ tasks[t].graph.edges = <<>>
        /\ tasks[t].graph.nodes # {}

\* C18 as claimed: of two concurrent compute_upgrade_path calls for a model
\* that was not built, the one whose build finishes second caches the graph
\* the first one cached and used, whatever rows the two builds fetched.
C18_NoDivergentGraphs ==
    [][\A t, u \in DOMAIN tasks :
          (/\ t # u
           /\ tasks[t].op = "compute_upgrade_path"
           /\ tasks[t].pc = "fetch_compatibilities"
           /\ tasks'[t].pc = "done" /\ tasks'[t].result.raised = "none"
           /\ tasks[u].op = "compute_upgrade_path"
           /\ tasks[u].pc = "done" /\ tasks[u].result.raised = "none"
           /\ tasks[u].fetches = 3
           /\ tasks[u].model_id = tasks[t].model_id)
          => model_graphs'[tasks[t].model_id] = model_graphs[tasks[t].model_id]]_vars

-----------------------------------------------------------------------------
(* Malformed rows: C19 (under SpecBuild).                                  *)

\* the version ids the data source holds for a model
VersionIds(model_id) ==
    {db[model_id].versions[i].id : i \in 1..Len(db[model_id].versions)}

\* C19 as claimed: a row that references a version id absent from the
\* model's version list is skipped: the nodes of a built graph are exactly
\* the version ids returned for the model, and no edge has an endpoint
\* outside them.
C19_NodesAreVersions ==
    \A t \in DOMAIN tasks :
        BuildDone(t) =>
            LET graph == model_graphs[tasks[t].model_id]
                ids == VersionIds(tasks[t].model_id)
            IN /\ graph.nodes = ids
               /\ \A i \in 1..Len(graph.edges) :
                      graph.edges[i].u \in ids /\ graph.edges[i].v \in ids

-----------------------------------------------------------------------------
(* The composed result: C20 (under SpecCompute).                           *)

\* task t's compute_upgrade_path has returned a result
ComputeResult(t) ==
    /\ tasks[t].pc = "done" /\ tasks[t].op = "compute_upgrade_path"
    /\ tasks[t].result.raised = "none" /\ tasks[t].result.value # None

\* the base path of task t's call, on the cache as it is
BasePath(t) ==
    find_upgrade_path(model_graphs, tasks[t].model_id,
                      tasks[t].from_version_id, tasks[t].to_version_id).value[1]

\* C20: whenever compute_upgrade_path returns a result, its step_count is
\* the number of its steps, which is the number of edges of the expanded
\* path, the sum over the base path's edges of 1 plus the edge's number of
\* mandatory intermediates (more than the base path's edges when an edge
\* has intermediates), and its model id and from and to version ids are
\* the ones passed in.
C20_StepCount ==
    \A t \in DOMAIN tasks :
        ComputeResult(t) =>
            LET r == tasks[t].result.value[1]
                g == model_graphs[tasks[t].model_id]
                base == BasePath(t)
            IN /\ r.step_count = Len(r.steps)
               /\ Len(r.steps) = ChainStart(g, base, Len(base) + 1)
               /\ (\E i \in 1..Len(base) :
                       EdgeIntermediates(g, base[i][1], base[i][2]) # <<>>)
                  => r.step_count > Len(base)
               /\ r.model_id = tasks[t].model_id
               /\ r.from_version_id = tasks[t].from_version_id
               /\ r.to_version_id = tasks[t].to_version_id

\* C20 witness: a base path of two edges, both with mandatory
\* intermediates, and a result of more than three steps.
C20_Witness ==
    \E t \in DOMAIN tasks :
        /\ ComputeResult(t)
        /\ Len(BasePath(t)) = 2
        /\ \A i \in 1..2 :
               EdgeIntermediates(model_graphs[tasks[t].model_id],
                                 BasePath(t)[i][1], BasePath(t)[i][2]) # <<>>
        /\ tasks[t].result.value[1].step_count > 3

-----------------------------------------------------------------------------
(* SpecDetails: one task calls compute_upgrade_path or find_upgrade_path   *)
(* once, for any two of three versions, on a built model whose             *)
(* upgrade_paths rows differ in                                            *)
(* their risk level, notes, downtime and flags as well as in their         *)
(* mandatory intermediates.                                                *)

DetailRows == 3

\* an upgrade_paths row: with every optional column unset, or HIGH risk
\* with notes, a downtime estimate and both flags off
DetailPathRow(id, from_version_id, to_version_id, detailed, intermediates) ==
    IF detailed
    THEN [PlainPathRow(id, from_version_id, to_version_id)
            EXCEPT !.mandatory_intermediate_version_ids = intermediates,
                   !.risk_level = Some("HIGH"),
                   !.notes = Some("upgrade"),
                   !.estimated_downtime_minutes = Some(15),
                   !.requires_backup = FALSE,
                   !.requires_reboot = FALSE]
    ELSE IntermediatesPathRow(id, from_version_id, to_version_id, intermediates)

\* no intermediates, one, or two of which the first (4) is no version of
\* the model
DetailIntermediates == {None, Some(<<2>>), Some(<<4, 2>>)}

\* the pairs of the rows: two in a row, the direct one, and one back
DetailPairs == ExpandPairs \cup {<<3, 1>>}

InitDetails ==
    \E k \in 0..DetailRows :
        \E rs \in [1..k -> DetailPairs \X BOOLEAN \X DetailIntermediates] :
            /\ db = (ExpandModel :>
                       [versions |-> [i \in ExpandIds |-> VersionRow(i)],
                        upgrade_paths |->
                            [i \in 1..k |->
                                DetailPathRow(i, rs[i][1][1], rs[i][1][2],
                                              rs[i][2], rs[i][3])],
                        compatibilities |-> <<>>])
            /\ model_graphs = (ExpandModel :> BuildGraph(DbVersions(ExpandModel),
                                                         DbUpgradePaths(ExpandModel),
                                                         DbCompatibilities(ExpandModel)))
            /\ version_map = AddVersionEntries(EmptyDict, DbVersions(ExpandModel))
            /\ tasks = (1 :> IdleTask)
            /\ call = NoCall

\* the one call of find_upgrade_path
FirstQueryUpgradePath(t, from_version_id, to_version_id) ==
    /\ tasks[t].pc = "idle"
    /\ QueryUpgradePath(t, ExpandModel, from_version_id, to_version_id)

NextDetails ==
    \/ \E t \in DOMAIN tasks, from_version_id, to_version_id \in ExpandIds :
           FirstComputeUpgradePath(t, from_version_id, to_version_id)
    \/ \E t \in DOMAIN tasks, from_version_id, to_version_id \in ExpandIds :
           FirstQueryUpgradePath(t, from_version_id, to_version_id)

SpecDetails == InitDetails /\ [][NextDetails]_vars

-----------------------------------------------------------------------------
(* C21: the scenario of a HIGH-risk edge with a mandatory intermediate.    *)

\* the (from, to) pairs of the steps of a result
HopsOf(steps) ==
    [i \in 1..Len(steps) |-> <<steps[i].from_version_id, steps[i].to_version_id>>]

\* attribute key of the edge (a, b) of g, which has that edge
EdgeAttr(g, a, b, key, default) == DictGet(get_edge_data(g, a, b)[1], key, default)

\* g has LOW-risk edges 1->2 and 2->3 and an edge 1->3 with mandatory
\* intermediates [2] and risk level HIGH, and no other edge
ScenarioGraph(g) ==
    /\ EdgePairs(g) = {<<1, 2>>, <<2, 3>>, <<1, 3>>}
    /\ EdgeAttr(g, 1, 2, "risk_level", "LOW") = "LOW"
    /\ EdgeAttr(g, 2, 3, "risk_level", "LOW") = "LOW"
    /\ EdgeAttr(g, 1, 3, "risk_level", "LOW") = "HIGH"
    /\ EdgeAttr(g, 1, 3, "mandatory_intermediates", <<>>) = <<2>>

\* task t has finished compute_upgrade_path(model, 1, 3) on the scenario's
\* graph
ScenarioComputed(t) ==
    /\ tasks[t].pc = "done" /\ tasks[t].op = "compute_upgrade_path"
    /\ tasks[t].result.raised = "none"
    /\ tasks[t].from_version_id = 1 /\ tasks[t].to_version_id = 3
    /\ tasks[t].model_id \in DOMAIN model_graphs
    /\ ScenarioGraph(model_graphs[tasks[t].model_id])

\* C21 as claimed: in the graph with LOW-risk edges 1->2 and 2->3 plus an
\* edge 1->3 with mandatory intermediates [2] and risk level HIGH,
\* compute_upgrade_path(model, 1, 3) selects the direct edge 1->3, returns
\* the expanded steps [1->2, 2->3] with step_count 2, and reports
\* overall_risk HIGH.
C21_ScenarioReportsHigh ==
    \A t \in DOMAIN tasks :
        ScenarioComputed(t) =>
            /\ tasks[t].result.value # None
            /\ BasePath(t) = << <<1, 3>> >>
            /\ HopsOf(tasks[t].result.value[1].steps) = << <<1, 2>>, <<2, 3>> >>
            /\ tasks[t].result.value[1].step_count = 2
            /\ tasks[t].result.value[1].overall_risk = "HIGH"

\* what the code returns in the scenario: the direct edge, the two
\* expanded steps, and overall_risk LOW
C21_ScenarioReportsLow ==
    \A t \in DOMAIN tasks :
        ScenarioComputed(t) =>
            /\ tasks[t].result.value # None
            /\ BasePath(t) = << <<1, 3>> >>
            /\ HopsOf(tasks[t].result.value[1].steps) = << <<1, 2>>, <<2, 3>> >>
            /\ tasks[t].result.value[1].step_count = 2
            /\ tasks[t].result.value[1].overall_risk = "LOW"

C21_ScenarioReached == \E t \in DOMAIN tasks : ScenarioComputed(t)

-----------------------------------------------------------------------------
(* SpecEndpoint: one request to POST /upgrade-path (routes.py,             *)
(* get_upgrade_path).  The handler makes its own UpgradePathEngine, so the *)
(* engine starts with nothing cached; task 1 is the handler's call of      *)
(* compute_upgrade_path.  The handler is suspended at its own version      *)
(* query and, inside the engine, at the three queries of the build.        *)

EndpointModels == {1, 2}
EndpointStrings == {"1", "2", "3"}

HTTPException(status_code, detail) ==
    [kind |-> "HTTPException", status_code |-> status_code, detail |-> detail]

\* `except Exception` that also takes the HTTPExceptions of the handler
get_upgrade_path_except_all(raised) ==
    [status_code |-> 500, detail |-> "Upgrade path computation failed"]

\* the except clauses: an HTTPException is raised again as it is, any
\* other exception becomes a 500
get_upgrade_path_except(raised) ==
    IF raised.kind = "HTTPException"
    THEN [status_code |-> raised.status_code, detail |-> raised.detail]
    ELSE [status_code |-> 500, detail |-> "Upgrade path computation failed"]

\* {v.version_string: v for v in rows}: the last row of a string
RowOfString(rows, s) ==
    LET I == {i \in 1..Len(rows) : rows[i].version_string = s}
    IN IF I = {} THEN None
       ELSE Some(rows[CHOOSE i \in I : \A j \in I : j <= i])

\* the rows of the handler's query: the model's versions whose string is
\* one of the two of the request
RequestedVersions(model_id, current_version, target_version) ==
    SelectSeq(DbVersions(model_id),
              LAMBDA v : v.version_string \in {current_version, target_version})

\* UpgradeStep(...) for every step and UpgradePathResponse(...): the risk
\* fields are of Literal["LOW", "MED", "HIGH"]
FormatResponse(request, path) ==
    IF /\ \A i \in 1..Len(path.steps) : path.steps[i].risk_level \in {"LOW", "MED", "HIGH"}
       /\ path.overall_risk \in {"LOW", "MED", "HIGH"}
    THEN Return([status_code |-> 200,
                 model_id |-> request.model_id,
                 from_version |-> request.current_version,
                 to_version |-> request.target_version,
                 steps |-> [i \in 1..Len(path.steps) |->
                              [step |-> <<path.steps[i].from_version,
                                          path.steps[i].to_version>>,
                               notes |-> path.steps[i].notes,
                               references |-> <<>>,
                               risk |-> path.steps[i].risk_level,
                               requires_backup |-> path.steps[i].requires_backup,
                               requires_reboot |-> path.steps[i].requires_reboot,
                               estimated_downtime_minutes |->
                                   path.steps[i].estimated_downtime_minutes]],
                 overall_risk |-> path.overall_risk,
                 total_estimated_downtime_minutes |->
                     path.total_estimated_downtime_minutes])
    ELSE Raise("ValidationError")

\* the handler from the return of compute_upgrade_path to its end
AfterCompute(request, outcome) ==
    IF outcome.raised # "none"
    THEN get_upgrade_path_except([kind |-> "Exception"])
    ELSE IF outcome.value = None
    THEN get_upgrade_path_except(HTTPException(404, "No upgrade path found"))
    ELSE LET formatted == FormatResponse(request, outcome.value[1])
         IN IF formatted.raised # "none"
            THEN get_upgrade_path_except([kind |-> "Exception"])
            ELSE formatted.value

\* the request is waiting for its version query
Resolving ==
    /\ call.op = "get_upgrade_path"
    /\ call.raised = None
    /\ tasks[1].pc = "idle"

\* the response of the request, once it has one: there is no suspension
\* between the end of compute_upgrade_path and the end of the handler
Response ==
    IF call.op # "get_upgrade_path" THEN None
    ELSE IF call.raised # None THEN Some(get_upgrade_path_except(call.raised[1]))
    ELSE IF tasks[1].pc = "done" THEN Some(AfterCompute(call, tasks[1].result))
    ELSE None

InitEndpoint ==
    \E versions \in EngineVersionLists, upgrade_paths \in EnginePathLists,
       compatibilities \in EngineCompatLists :
        /\ db = (EngineModel :> [versions |-> versions,
                                 upgrade_paths |-> upgrade_paths,
                                 compatibilities |-> compatibilities])
        /\ model_graphs = EmptyDict
        /\ version_map = EmptyDict
        /\ tasks = (1 :> IdleTask)
        /\ call = NoCall

\* the request arrives: the engine is made and the version query awaited
GetUpgradePath(model_id, current_version, target_version) ==
    /\ call.op = "none"
    /\ call' = [op |-> "get_upgrade_path",
                model_id |-> model_id,
                current_version |-> current_version,
                target_version |-> target_version,
                raised |-> None]
    /\ UNCHANGED <<model_graphs, version_map, db, tasks>>

\* the version query returns: a string that is no version of the model
\* ends the request, otherwise compute_upgrade_path is called with the two
\* ids and runs to its first query
VersionsResolved ==
    /\ Resolving
    /\ LET rows == RequestedVersions(call.model_id, call.current_version,
                                     call.target_version)
           current == RowOfString(rows, call.current_version)
           target == RowOfString(rows, call.target_version)
       IN IF current = None
          THEN /\ call' = [call EXCEPT !.raised =
                              Some(HTTPException(404, "Current version not found"))]
               /\ UNCHANGED <<model_graphs, version_map, db, tasks>>
          ELSE IF target = None
          THEN /\ call' = [call EXCEPT !.raised =
                              Some(HTTPException(404, "Target version not found"))]
               /\ UNCHANGED <<model_graphs, version_map, db, tasks>>
          ELSE ComputeUpgradePath(1, call.model_id, current[1].id, target[1].id)

\* the version query fails
ResolveFails ==
    /\ Resolving
    /\ call' = [call EXCEPT !.raised = Some([kind |-> "Exception"])]
    /\ UNCHANGED <<model_graphs, version_map, db, tasks>>

NextEndpoint ==
    \/ \E model_id \in EndpointModels, current_version, target_version \in EndpointStrings :
           GetUpgradePath(model_id, current_version, target_version)
    \/ VersionsResolved
    \/ ResolveFails
    \/ \E t \in DOMAIN tasks : VersionsFetched(t, DbVersions(tasks[t].model_id))
    \/ \E t \in DOMAIN tasks : UpgradePathsFetched(t, DbUpgradePaths(tasks[t].model_id))
    \/ \E t \in DOMAIN tasks :
           CompatibilitiesFetched(t, DbCompatibilities(tasks[t].model_id))
    \/ \E t \in DOMAIN tasks : FetchFails(t)

SpecEndpoint == InitEndpoint /\ [][NextEndpoint]_vars

-----------------------------------------------------------------------------
(* C22: the three failure responses of the endpoint.                       *)

\* the string is the version_string of a version of the request's model
Resolves(s) ==
    \E i \in 1..Len(DbVersions(call.model_id)) :
        DbVersions(call.model_id)[i].version_string = s

VersionNotFound(r) ==
    /\ r.status_code = 404
    /\ r.detail \in {"Current version not found", "Target version not found"}
NoUpgradePathFound(r) ==
    r.status_code = 404 /\ r.detail = "No upgrade path found"
InternalError(r) == r.status_code = 500

\* C22: the endpoint resolves both version strings before it calls the
\* engine: compute_upgrade_path is called only once both have resolved;
\* the response is version-not-found exactly when the version query
\* returned and one of the strings did not resolve, and then the engine was
\* never called; it is no-upgrade-path-found exactly when
\* compute_upgrade_path returned None; it is an internal error exactly when
\* the version query, a query of the build or the making of the response
\* failed; and no response is in two of the three categories.
C22_ThreeResponseCategories ==
    /\ (call.op = "get_upgrade_path" /\ tasks[1].pc # "idle")
       => (Resolves(call.current_version) /\ Resolves(call.target_version)
           /\ tasks[1].op = "compute_upgrade_path")
    /\ Response # None =>
         LET r == Response[1]
             queried == call.raised = None \/ call.raised[1].kind = "HTTPException"
             computed == tasks[1].pc = "done"
         IN /\ VersionNotFound(r) <=>
                  (queried /\ ~(Resolves(call.current_version)
                                /\ Resolves(call.target_version)))
            /\ VersionNotFound(r) => tasks[1].pc = "idle"
            /\ NoUpgradePathFound(r) <=>
                  (computed /\ tasks[1].result = Return(None))
            /\ InternalError(r) <=>
                  \/ ~queried
                  \/ computed /\ tasks[1].result.raised # "none"
            /\ ~(VersionNotFound(r) /\ NoUpgradePathFound(r))
            /\ ~(VersionNotFound(r) /\ InternalError(r))
            /\ ~(NoUpgradePathFound(r) /\ InternalError(r))
            /\ r.status_code = 200 <=>
                  (computed /\ tasks[1].result.raised = "none"
                            /\ tasks[1].result.value # None)

\* C22 witness: the current version resolves, the target does not, the
\* response is version-not-found and the engine was not called.
C22_Witness ==
    /\ Response # None
    /\ VersionNotFound(Response[1])
    /\ Resolves(call.current_version)
    /\ ~Resolves(call.target_version)
    /\ tasks[1].pc = "idle"

\* a request whose two versions resolve and for which compute_upgrade_path
\* returns None gets the no-upgrade-path-found response
C22_NoPathReached ==
    /\ Response # None
    /\ NoUpgradePathFound(Response[1])
    /\ model_graphs # EmptyDict

-----------------------------------------------------------------------------
(* C23: the step details are those of each expanded hop's own edge.        *)

\* the chains of the edges of a base path, one after the other
RECURSIVE ExpandedChains(_, _)
ExpandedChains(g, path_edges) ==
    IF path_edges = <<>> THEN <<>>
    ELSE ChainOf(Head(path_edges)[1],
                 EdgeIntermediates(g, Head(path_edges)[1], Head(path_edges)[2]),
                 Head(path_edges)[2])
         \o ExpandedChains(g, Tail(path_edges))

\* the step carries the columns of the upgrade_paths row
StepCarriesRow(step, path) ==
    /\ step.risk_level = (IF path.risk_level = None THEN "LOW" ELSE path.risk_level[1])
    /\ step.notes = path.notes
    /\ step.estimated_downtime_minutes = path.estimated_downtime_minutes
    /\ step.requires_backup = path.requires_backup
    /\ step.requires_reboot = path.requires_reboot
    /\ step.mandatory_intermediates =
           (IF path.mandatory_intermediate_version_ids = None THEN <<>>
            ELSE path.mandatory_intermediate_version_ids[1])

\* the step of a hop the graph has no edge for
StepIsDefault(step) ==
    /\ step.risk_level = "LOW"
    /\ step.requires_backup = TRUE
    /\ step.requires_reboot = TRUE
    /\ step.notes = None
    /\ step.estimated_downtime_minutes = None
    /\ step.mandatory_intermediates = <<>>

\* C23: the steps of a result are the hops of the expanded base path, in
\* order, and each step is made from the hop's own pair (a, b) alone: when
\* the graph has an edge for the pair (built from the last upgrade_paths
\* row of the pair) the step carries that edge's risk, notes, downtime and
\* flags; when it has none the step is LOW risk, requires backup, requires
\* reboot, has no notes, no downtime and empty intermediates.  The risk of
\* an edge with mandatory intermediates is not carried over to the hops it
\* expands into.
C23_StepsLookedUpPerHop ==
    \A t \in DOMAIN tasks :
        ComputeResult(t) =>
            LET r == tasks[t].result.value[1]
                m == tasks[t].model_id
                rows == DbUpgradePaths(m)
            IN /\ HopsOf(r.steps) = ExpandedChains(model_graphs[m], BasePath(t))
               /\ \A i \in 1..Len(r.steps) :
                    LET at == RowsFor(rows, r.steps[i].from_version_id,
                                      r.steps[i].to_version_id)
                    IN IF at = {} THEN StepIsDefault(r.steps[i])
                       ELSE StepCarriesRow(r.steps[i], rows[Max(at)])

\* C23 witness: the base path is the HIGH-risk edge 1->3 with the
\* mandatory intermediate 2; the hop 1->2 has a LOW-risk edge of its own,
\* the hop 2->3 has no edge, and both steps are LOW risk.
C23_Witness ==
    \E t \in DOMAIN tasks :
        /\ ComputeResult(t)
        /\ BasePath(t) = << <<1, 3>> >>
        /\ EdgeAttr(model_graphs[tasks[t].model_id], 1, 3, "risk_level", "LOW") = "HIGH"
        /\ HopsOf(tasks[t].result.value[1].steps) = << <<1, 2>>, <<2, 3>> >>
        /\ has_edge(model_graphs[tasks[t].model_id], 1, 2)
        /\ ~has_edge(model_graphs[tasks[t].model_id], 2, 3)
        /\ \A i \in 1..2 : tasks[t].result.value[1].steps[i].risk_level = "LOW"
        /\ tasks[t].result.value[1].overall_risk = "LOW"

-----------------------------------------------------------------------------
(* C24: the chosen path does not depend on the edge attributes.            *)

\* the graph with the same nodes and the same edges in the same insertion
\* order, and no edge attribute at all
Bare(g) ==
    [g EXCEPT !.edges = [i \in 1..Len(g.edges) |->
                            [u |-> g.edges[i].u, v |-> g.edges[i].v, attr |-> EmptyDict]]]

\* task t has finished a call of find_upgrade_path
FindReturned(t) ==
    /\ tasks[t].pc = "done" /\ tasks[t].op = "find_upgrade_path"
    /\ tasks[t].model_id \in DOMAIN model_graphs

\* C24: the path find_upgrade_path returns depends only on the nodes, the
\* edges and the edge insertion order of the graph: it is the path found
\* on the graph stripped of every edge attribute (risk level, downtime,
\* flags, notes, mandatory intermediates), so two graphs that differ only
\* in edge attributes give the same edge sequence for every (from, to),
\* and the base path has the fewest unexpanded edges even when its
\* expansion has more steps than another route.
C24_PathIgnoresAttributes ==
    \A t \in DOMAIN tasks :
        FindReturned(t) =>
            LET m == tasks[t].model_id
                g == model_graphs[m]
                bare == find_upgrade_path(m :> Bare(g), m, tasks[t].from_version_id,
                                          tasks[t].to_version_id)
            IN /\ tasks[t].result = bare
               /\ tasks[t].result.value # None =>
                      \A k \in 0..(Len(tasks[t].result.value[1]) - 1) :
                          RoutesOfLength(g, k, tasks[t].from_version_id,
                                         tasks[t].to_version_id) = {}

\* C24 witness: the direct edge 1->3 with two mandatory intermediates is
\* returned, though the route 1->2, 2->3 over edges without intermediates
\* has fewer steps than its expansion.
C24_Witness ==
    \E t \in DOMAIN tasks :
        /\ FindReturned(t)
        /\ tasks[t].result = Return(Some(<< <<1, 3>> >>))
        /\ Len(EdgeIntermediates(model_graphs[tasks[t].model_id], 1, 3)) = 2
        /\ has_edge(model_graphs[tasks[t].model_id], 1, 2)
        /\ has_edge(model_graphs[tasks[t].model_id], 2, 3)
        /\ EdgeIntermediates(model_graphs[tasks[t].model_id], 1, 2) = <<>>
        /\ EdgeIntermediates(model_graphs[tasks[t].model_id], 2, 3) = <<>>

-----------------------------------------------------------------------------
(* C25: the attributes of the built edges (under SpecBuild).               *)

\* the indices of the allowed rows of a pair
AllowedFor(rows, from_id, to_id) ==
    {j \in RowsFor(rows, from_id, to_id) : rows[j].allowed}

Min(S) == CHOOSE x \in S : \A y \in S : x <= y

\* the graph has an edge for the pair with the defaults of a compatibility
\* edge and the given notes
HasCompatibilityDefaults(graph, from_id, to_id, notes) ==
    /\ has_edge(graph, from_id, to_id)
    /\ EdgeAttr(graph, from_id, to_id, "risk_level", "LOW") = "LOW"
    /\ EdgeAttr(graph, from_id, to_id, "requires_backup", TRUE) = TRUE
    /\ EdgeAttr(graph, from_id, to_id, "requires_reboot", TRUE) = TRUE
    /\ EdgeAttr(graph, from_id, to_id, "mandatory_intermediates", <<>>) = <<>>
    /\ EdgeAttr(graph, from_id, to_id, "estimated_downtime_minutes", None) = None
    /\ EdgeAttr(graph, from_id, to_id, "notes", None) = notes

\* the graph has an edge for the row's pair with the row's columns, an
\* unset risk level read as LOW and unset intermediates as empty
HasUpgradePathFields(graph, path) ==
    /\ has_edge(graph, path.from_version_id, path.to_version_id)
    /\ LET attr == get_edge_data(graph, path.from_version_id, path.to_version_id)[1]
       IN /\ DictGet(attr, "risk_level", "LOW") =
                 (IF path.risk_level = None THEN "LOW" ELSE path.risk_level[1])
          /\ DictGet(attr, "mandatory_intermediates", <<>>) =
                 (IF path.mandatory_intermediate_version_ids = None THEN <<>>
                  ELSE path.mandatory_intermediate_version_ids[1])
          /\ DictGet(attr, "notes", None) = path.notes
          /\ DictGet(attr, "estimated_downtime_minutes", None) =
                 path.estimated_downtime_minutes
          /\ DictGet(attr, "requires_backup", TRUE) = path.requires_backup
          /\ DictGet(attr, "requires_reboot", TRUE) = path.requires_reboot

\* C25 as claimed: for every allowed compatibility record whose (from, to)
\* pair has no upgrade-path record, the built graph has an edge for the
\* pair with risk level LOW, requires_backup true, requires_reboot true,
\* empty mandatory intermediates, no downtime estimate and the record's
\* notes; for every upgrade-path record the built edge carries the
\* record's fields verbatim, an unset risk level read as LOW and unset
\* intermediates as empty.
C25_EveryRecordCarried ==
    \A t \in DOMAIN tasks :
        BuildDone(t) =>
            LET m == tasks[t].model_id
                paths == db[m].upgrade_paths
                compats == db[m].compatibilities
            IN /\ \A j \in 1..Len(compats) :
                     (/\ compats[j].allowed
                      /\ RowsFor(paths, compats[j].from_version_id,
                                 compats[j].to_version_id) = {})
                     => HasCompatibilityDefaults(model_graphs[m],
                                                 compats[j].from_version_id,
                                                 compats[j].to_version_id,
                                                 compats[j].notes)
               /\ \A i \in 1..Len(paths) : HasUpgradePathFields(model_graphs[m], paths[i])

\* C25, amended: for every pair with an allowed compatibility record and
\* no upgrade-path record, the built graph has one edge for the pair, made
\* from the first allowed compatibility record of the pair: risk level
\* LOW, requires_backup true, requires_reboot true, no mandatory
\* intermediates, no downtime estimate, and that record's notes; for
\* every pair with an upgrade-path record the edge carries the fields of
\* the last upgrade-path record of the pair, an unset risk level read as
\* LOW and unset intermediates as empty; a pair with neither has no edge.
C25_EdgeAttributes ==
    \A t \in DOMAIN tasks :
        BuildDone(t) =>
            LET m == tasks[t].model_id
                g == model_graphs[m]
                paths == db[m].upgrade_paths
                compats == db[m].compatibilities
            IN \A p \in BuildPairs :
                 IF RowsFor(paths, p[1], p[2]) # {}
                 THEN /\ CarriesUpgradePath(g, paths[Max(RowsFor(paths, p[1], p[2]))])
                      /\ HasUpgradePathFields(g, paths[Max(RowsFor(paths, p[1], p[2]))])
                 ELSE IF AllowedFor(compats, p[1], p[2]) # {}
                 THEN LET first == compats[Min(AllowedFor(compats, p[1], p[2]))]
                      IN /\ HasCompatibilityDefaults(g, p[1], p[2], first.notes)
                         /\ get_edge_data(g, p[1], p[2])[1].compatibility_id = first.id
                         /\ "path_id" \notin DOMAIN get_edge_data(g, p[1], p[2])[1]
                         /\ Cardinality({i \in 1..Len(g.edges) :
                                g.edges[i].u = p[1] /\ g.edges[i].v = p[2]}) = 1
                 ELSE ~has_edge(g, p[1], p[2])

\* C25 witness: a finished build with two allowed compatibility records
\* for a pair without upgrade-path record, and two upgrade-path records
\* for the other pair, the first fully set and the last with every
\* optional column unset.
C25_Witness ==
    \E t \in DOMAIN tasks :
        /\ BuildDone(t)
        /\ \E p, q \in BuildPairs :
             LET paths == db[BuildModel].upgrade_paths
                 compats == db[BuildModel].compatibilities
             IN /\ RowsFor(paths, p[1], p[2]) = {}
                /\ Cardinality(AllowedFor(compats, p[1], p[2])) = 2
                /\ Cardinality(RowsFor(paths, q[1], q[2])) = 2
                /\ paths[1].risk_level # None
                /\ paths[2].risk_level = None
                /\ EdgeAttr(model_graphs[BuildModel], q[1], q[2], "risk_level", "LOW") = "LOW"

-----------------------------------------------------------------------------
(* C26: the returned sequences are chains.                                 *)

\* each edge's target is the next edge's source, the first edge leaves
\* source and the last one enters target
IsChain(edges, source, target) ==
    /\ edges # <<>>
    /\ \A i \in 1..(Len(edges) - 1) : edges[i][2] = edges[i + 1][1]
    /\ edges[1][1] = source
    /\ edges[Len(edges)][2] = target

\* the nodes a chain visits, in order
NodesOf(edges) ==
    [i \in 1..(Len(edges) + 1) |-> IF i = 1 THEN edges[1][1] ELSE edges[i - 1][2]]

VisitsNoNodeTwice(edges) ==
    \A i, j \in 1..(Len(edges) + 1) :
        i # j => NodesOf(edges)[i] # NodesOf(edges)[j]

\* C26: every non-empty sequence find_upgrade_path returns is a contiguous
\* chain of edges of the graph that starts at from, ends at to and visits
\* no node twice; the steps compute_upgrade_path makes of it through
\* expand_path_with_intermediates are again a contiguous chain from from
\* to to.  (The hops of the expanded chain need not be edges of the graph
\* and it may visit a node more than once: see the witness.)
C26_PathsAreChains ==
    \A t \in DOMAIN tasks :
        /\ (FindReturned(t) /\ tasks[t].result.raised = "none"
            /\ tasks[t].result.value # None /\ tasks[t].result.value # Some(<<>>))
           => LET path_edges == tasks[t].result.value[1]
              IN /\ IsChain(path_edges, tasks[t].from_version_id, tasks[t].to_version_id)
                 /\ \A i \in 1..Len(path_edges) :
                        path_edges[i] \in EdgePairs(model_graphs[tasks[t].model_id])
                 /\ VisitsNoNodeTwice(path_edges)
        /\ ComputeResult(t)
           => /\ IsChain(HopsOf(tasks[t].result.value[1].steps),
                         tasks[t].from_version_id, tasks[t].to_version_id)
              /\ IsChain(BasePath(t), tasks[t].from_version_id, tasks[t].to_version_id)
              /\ VisitsNoNodeTwice(BasePath(t))
              /\ HopsOf(tasks[t].result.value[1].steps) =
                     expand_path_with_intermediates(model_graphs, tasks[t].model_id,
                                                    BasePath(t))

\* C26 witness: the steps of a result are a chain of which a hop is no
\* edge of the graph and which visits a node twice, made of a base path of
\* two edges.
C26_Witness ==
    \E t \in DOMAIN tasks :
        /\ ComputeResult(t)
        /\ Len(BasePath(t)) = 2
        /\ LET hops == HopsOf(tasks[t].result.value[1].steps)
           IN /\ \E i \in 1..Len(hops) :
                     hops[i] \notin EdgePairs(model_graphs[tasks[t].model_id])
              /\ ~VisitsNoNodeTwice(hops)

-----------------------------------------------------------------------------
(* C27: validate_path and find_upgrade_path agree (under SpecValidate).    *)

\* C27: on the same engine state, for every model id and every (from, to),
\* validate_path returns (True, None) exactly when find_upgrade_path
\* returns a sequence, the empty one included, rather than None; neither
\* raises.
C27_ValidateAgreesWithFind ==
    ValidateDone =>
        LET found == find_upgrade_path(model_graphs, call.model_id,
                                       call.from_version_id, call.to_version_id)
        IN /\ call.result.raised = "none"
           /\ found.raised = "none"
           /\ (call.result.value = <<TRUE, None>>) <=> (found.value # None)
           /\ (call.result.value[1] = FALSE) <=> (found.value = None)

\* C27 witness: from = to on a node of a graph that has edges; validate_path
\* returns (True, None) and find_upgrade_path the empty sequence.
C27_Witness ==
    /\ ValidateDone
    /\ call.from_version_id = call.to_version_id
    /\ call.result = Return(<<TRUE, None>>)
    /\ find_upgrade_path(model_graphs, call.model_id,
                         call.from_version_id, call.to_version_id) = Return(Some(<<>>))
    /\ model_graphs[call.model_id].edges # <<>>

\* the two also agree on a pair of versions without a path and on a model
\* that has no graph
C27_BothRefuse ==
    /\ ValidateDone
    /\ call.model_id \notin DOMAIN model_graphs
    /\ call.result.value[1] = FALSE

-----------------------------------------------------------------------------
(* SpecRebuild: the engine has built two models from the rows the data     *)
(* source held then; the rows of model 1 have changed since, and one task  *)
(* calls build_graph_from_db for model 1.                                  *)

OtherModel == 2

\* the rows of a model: old ones with at least one version, new ones
RebuildRows(least) ==
    [versions : {[i \in 1..n |-> VersionRow(i)] : n \in least..EngineVersions},
     upgrade_paths : EnginePathLists,
     compatibilities : EngineCompatLists]

InitRebuild ==
    \E old, new \in RebuildRows(0) :
        /\ old.versions # <<>>
        /\ db = (BuildModel :> new)
        /\ model_graphs =
               (BuildModel :> BuildGraph(old.versions, old.upgrade_paths,
                                         AllowedRows(old.compatibilities)))
               @@ (OtherModel :> BuildGraph(<<VersionRow(1), VersionRow(2)>>,
                                            <<PlainPathRow(1, 2, 1)>>, <<>>))
        /\ version_map = AddVersionEntries(AddVersionEntries(EmptyDict,
                                               <<VersionRow(1), VersionRow(2)>>),
                                           old.versions)
        /\ tasks = (1 :> IdleTask)
        /\ call = NoCall

SpecRebuild == InitRebuild /\ [][NextBuild]_vars

-----------------------------------------------------------------------------
(* C28: what an explicit rebuild does to the cache.                        *)

\* task t is in an explicit rebuild of a model that has a cached graph
Rebuilding(t) ==
    /\ tasks[t].op = "build_graph_from_db"
    /\ Fetching(t)
    /\ tasks[t].model_id \in DOMAIN model_graphs

\* C28: an explicit rebuild of a model that is already built replaces, at
\* its end, the model's cached graph as a whole by the graph made of the
\* fetched rows alone when the versions query returned at least one
\* version, and leaves the cached graphs and the version map as they were
\* when it returned none; no step of the rebuild changes the cached graph
\* of another model id, and no step before the last changes any.
C28_RebuildReplacesGraph ==
    [][\A t \in DOMAIN tasks :
          (Rebuilding(t) /\ tasks'[t] # tasks[t]) =>
              LET m == tasks[t].model_id IN
              IF tasks'[t].pc = "done" /\ tasks[t].pc = "fetch_compatibilities"
              THEN /\ model_graphs' =
                          [model_graphs EXCEPT ![m] =
                              BuildGraph(DbVersions(m), DbUpgradePaths(m),
                                         DbCompatibilities(m))]
                   /\ DbVersions(m) # <<>>
              ELSE IF tasks'[t].pc = "done"
              THEN /\ tasks[t].pc = "fetch_versions" /\ DbVersions(m) = <<>>
                   /\ model_graphs' = model_graphs
                   /\ version_map' = version_map
              ELSE model_graphs' = model_graphs]_vars

\* C28 witness: the rebuild is done, the data source has versions for the
\* model, the cached graph is the one of the rows it holds now, with fewer
\* nodes and edges than version_map and the rows of the first build would
\* give, and the other model's graph is there as it was.
C28_Witness ==
    /\ tasks[1].pc = "done" /\ tasks[1].op = "build_graph_from_db"
    /\ DbVersions(BuildModel) # <<>>
    /\ model_graphs[BuildModel] =
           BuildGraph(DbVersions(BuildModel), DbUpgradePaths(BuildModel),
                      DbCompatibilities(BuildModel))
    /\ model_graphs[BuildModel].edges = <<>>
    /\ model_graphs[BuildModel].nodes = {1}
    /\ 2 \in DOMAIN version_map
    /\ model_graphs[OtherModel].edges # <<>>

\* the rebuild is done and found no versions: the graph of the first
\* build, with its edges, is still cached
C28_EmptyRebuildReached ==
    /\ tasks[1].pc = "done" /\ tasks[1].op = "build_graph_from_db"
    /\ DbVersions(BuildModel) = <<>>
    /\ model_graphs[BuildModel].edges # <<>>

-----------------------------------------------------------------------------
(* C29: graph and version-map entries are published together (under Spec). *)

\* the ids of a list of version rows
IdsOf(versions) == {versions[i].id : i \in 1..Len(versions)}

\* the cached graph of m is a build over a version list whose versions all
\* have an entry in the version map
VersionsHaveEntries(m) ==
    \E versions \in EngineVersionLists \ {<<>>} :
        /\ IdsOf(versions) \subseteq DOMAIN version_map
        /\ \A id \in IdsOf(versions) : "version_string" \in DOMAIN version_map[id]
        /\ \E upgrade_paths \in EnginePathLists, compatibilities \in EngineCompatLists :
               model_graphs[m] = BuildGraph(versions, upgrade_paths, compatibilities)

\* C29: with tasks interleaving only at the three queries of a build, the
\* step in which a build caches its graph is the step in which it puts its
\* version-map entries, one for each node it made from the version list,
\* into the version map; the version map changes in no other step and
\* loses no entry; so in every state each node of a cached graph that came
\* from the model's version list has an entry in the version map.
C29_GraphAndVersionMapTogether ==
    /\ [][\A t \in DOMAIN tasks :
             (Fetching(t) /\ tasks'[t].pc = "done" /\ tasks'[t].result.raised = "none"
              /\ tasks[t].pc = "fetch_compatibilities")
             => /\ Publishes(t)
                /\ version_map' = DictUpdate(version_map, tasks[t].version_map)
                /\ DOMAIN tasks[t].version_map # {}
                /\ DOMAIN tasks[t].version_map \subseteq
                       model_graphs'[tasks[t].model_id].nodes
                /\ DOMAIN tasks[t].version_map \subseteq DOMAIN version_map']_vars
    /\ [][(model_graphs' # model_graphs \/ version_map' # version_map)
             => \E t \in DOMAIN tasks :
                    /\ Publishes(t)
                    /\ version_map' = DictUpdate(version_map, tasks[t].version_map)]_vars
    /\ [][DOMAIN version_map \subseteq DOMAIN version_map']_vars
    /\ [](\A m \in DOMAIN model_graphs : VersionsHaveEntries(m))

\* C29 witness: while a rebuild of the model is between two of its queries
\* with a graph of its own, the other task has read the cache: the cached
\* graph has two nodes from the version list, both with an entry in the
\* version map, and the steps returned carry their version strings.
C29_Witness ==
    /\ DOMAIN tasks = {1, 2}
    /\ tasks[1].pc = "fetch_compatibilities"
    /\ ComputeResult(2)
    /\ model_graphs[EngineModel].nodes = {1, 2}
    /\ DOMAIN version_map = {1, 2}
    /\ Len(tasks[2].result.value[1].steps) = 1
    /\ tasks[2].result.value[1].steps[1].from_version # None
    /\ tasks[2].result.value[1].steps[1].to_version # None

-----------------------------------------------------------------------------
(* C30: concurrent compute_upgrade_path calls for one model (under Spec).  *)

\* task t, in compute_upgrade_path, ends its build and its call in this step
ComputePublishes(t) ==
    /\ tasks[t].op = "compute_upgrade_path"
    /\ tasks[t].pc = "fetch_compatibilities"
    /\ tasks'[t].pc = "done"
    /\ tasks'[t].result.raised = "none"

\* C30: when several compute_upgrade_path calls for the same uncached
\* model id run concurrently, each call whose own build caches a graph
\* returns, in that very step, what its path, expansion, step details and
\* totals are on exactly that graph, whatever the cache held before; and
\* the graph in the cache after a build has finished is that build's, so
\* the one left at the end is the one of the build that finished last.
C30_CallerUsesOwnGraph ==
    [][\A t \in DOMAIN tasks :
          ComputePublishes(t) =>
              \E compatibilities \in EngineCompatLists :
                  LET m == tasks[t].model_id
                      own == AddCompatibilities(tasks[t].graph, compatibilities)
                  IN /\ model_graphs'[m] = own
                     /\ tasks'[t].result =
                            ComputeFromCache(m :> own, version_map', m,
                                             tasks[t].from_version_id,
                                             tasks[t].to_version_id)
                     /\ tasks'[t].result.value # None =>
                            HopsOf(tasks'[t].result.value[1].steps) =
                                expand_path_with_intermediates(
                                    m :> own, m,
                                    find_upgrade_path(m :> own, m,
                                                      tasks[t].from_version_id,
                                                      tasks[t].to_version_id).value[1])]_vars

\* C30 witness: both tasks called compute_upgrade_path(model, 1, 2) while
\* the model was not cached and both built; task 1 built a graph with the
\* edge 1->2 and returned one step, task 2 built one without and returned
\* None; task 2 finished last and its graph is the one cached.
C30_Witness ==
    /\ DOMAIN tasks = {1, 2}
    /\ \A t \in {1, 2} :
           /\ tasks[t].pc = "done" /\ tasks[t].op = "compute_upgrade_path"
           /\ tasks[t].fetches = 3
           /\ tasks[t].from_version_id = 1 /\ tasks[t].to_version_id = 2
    /\ tasks[1].result.raised = "none" /\ tasks[1].result.value # None
    /\ tasks[1].result.value[1].step_count = 1
    /\ tasks[2].result = Return(None)
    /\ model_graphs[EngineModel].edges = <<>>
    /\ model_graphs[EngineModel].nodes = {1, 2}

====
